---- MODULE Spec2Model ----
(***************************************************************************)
(* A model of the MCL toolchain: the virtual machine (src/vm), and the     *)
(* compiler back end (src/compiler): register allocator, memory manager    *)
(* and assembly generator.                                                 *)
(***************************************************************************)
EXTENDS Integers, Sequences, FiniteSets, TLC

VARIABLES
    program,            \* Memory.program: the loaded instructions
    labels,             \* Memory.labels: label name -> instruction address
    registers,          \* CPU.registers
    pc,                 \* CPU.pc
    state,              \* CPU.state
    halt_reason,        \* CPU.halt_reason
    instruction_count,  \* CPU.instruction_count
    cycle_count,        \* CPU.cycle_count
    ram,                \* Memory.ram, kept sparse: absent addresses hold 0
    input_buffer,       \* CPU.input_buffer, kept sparse like ram
    input_read_pos,     \* CPU.input_read_pos
    input_write_pos,    \* CPU.input_write_pos
    running,            \* VirtualMachine.running
    breakpoints,        \* VirtualMachine.breakpoints
    memory_manager,     \* SymbolTable.memory_manager
    register_allocator, \* SymbolTable.register_allocator
    scopes,             \* the Scope chain, global scope to current_scope
    next_scope_id,      \* SymbolTable.next_scope_id
    expression_scope_stack, \* SymbolTable.expression_scope_stack
    instructions,       \* the instructions emitted so far
    result,             \* outcome of the last compiler call
    ast,                \* the Program handed to generate_assembly
    gpu,                \* CPU.gpu: the GPU attached to the CPU, if any
    history,            \* history: characters added, consumed, removed
    run_frame           \* the call of CPU.run or of the VM's loop in progress

vmVars == <<program, labels, registers, pc, state, halt_reason,
            instruction_count, cycle_count, ram, input_buffer,
            input_read_pos, input_write_pos, running, breakpoints>>

compilerVars == <<memory_manager, register_allocator, scopes, next_scope_id,
                  expression_scope_stack, instructions, result, ast>>

deviceVars == <<gpu, history, run_frame>>

vars == <<vmVars, compilerVars, deviceVars>>

(***************************************************************************)
(* Bounds                                                                  *)
(***************************************************************************)
\* executed instructions per run are capped so that looping programs
\* give a finite state space
MaxSteps == 12

\* temporaries a generator allocates in one compilation
MaxTemps == 26

\* temporaries held when the allocator is observed
HeldTemporaries == 25

\* accesses counted for one register
MaxUsage == 1

\* RAM segments after which a generator stops spilling by hand
MaxSpills == 2

\* nesting of expression scopes
MaxDepth == 1

\* max_cycles of compile_and_run_mcl (tests/test_mcl_comprehensive.py)
max_cycles == 100
MaxNesting == 2
MaxScopes == 3
MaxSegments == 2

\* backspaces in one run
MaxBackspaces == 1

\* GPU commands in one program
MaxCommands == 2

(***************************************************************************)
(* Machine constants                                                       *)
(***************************************************************************)
NumRegisters == 32
RETURN_VALUE_REG == 0
SECONDARY_RETURN_REG == 1
RamSize == 32768
RomStart == 32768
RomSize == 16384
InputBufferSize == 256
DisplaySize == 32
WordMask == 65535

None == "None"
NoExc == ""

\* None where an integer is expected
NoValue == -1

RUNNING == "running"
STOPPED == "stopped"
ERROR == "error"
BREAKPOINT == "breakpoint"

SPECIAL_REGISTERS == {"GPU"}

JumpOpcodes == {"JMP", "JAL", "JBT", "JZ", "JNZ"}
GpuOpcodes == {"DRLINE", "DRGRD", "CLRGRID", "LDSPR", "DRSPR", "LDTXT",
               "DRTXT", "SCRLBFR"}
instruction_handlers ==
    {"LOAD", "READ", "MVR", "MVM", "ADD", "SUB", "MULT", "DIV", "SHL",
     "SHR", "SHLR", "AND", "OR", "XOR", "NOT", "KEYIN", "HALT"}
    \cup JumpOpcodes \cup GpuOpcodes

(***************************************************************************)
(* Operands, as the loader's _parse_operand leaves them.  The text forms   *)
(* are  i:N  i:label  0xN  N (a register number)  GPU  label.              *)
(***************************************************************************)
Imm(n) == [k |-> "imm", n |-> n, s |-> ""]
ImmLabel(s) == [k |-> "ilab", n |-> 0, s |-> s]
Hex(n) == [k |-> "hex", n |-> n, s |-> ""]
Reg(n) == [k |-> "reg", n |-> n, s |-> ""]
\* i:0xFFFFnnnn, an immediate of 32 bits whose upper half is all ones: n is
\* its lower half
ImmHighOnes(n) == [k |-> "immw", n |-> n, s |-> ""]
Name(s) == [k |-> IF s \in SPECIAL_REGISTERS THEN "special" ELSE "lab",
            n |-> 0, s |-> s]
Instruction(opcode, operands) == [opcode |-> opcode, operands |-> operands]

\* operand.startswith('i:')
IsImmediateForm(op) == op.k \in {"imm", "immw", "ilab"}

(***************************************************************************)
(* Results of operations that may raise                                    *)
(***************************************************************************)
Ok(v) == [exc |-> NoExc, v |-> v]
Err(msg) == [exc |-> msg, v |-> 0]
Raise(m, msg) == [m EXCEPT !.exc = msg]

\* value & 0xFFFF
Mask16(v) == v % (WordMask + 1)

(***************************************************************************)
(* Memory (src/vm/memory.py)                                               *)
(***************************************************************************)
RamGet(r, a) == IF a \in DOMAIN r THEN r[a] ELSE 0

RamSet(r, a, v) ==
    IF v = 0 THEN [x \in (DOMAIN r) \ {a} |-> r[x]]
    ELSE [x \in (DOMAIN r) \cup {a} |-> IF x = a THEN v ELSE r[x]]

\* Memory._get_region: "RAM", "ROM" or no region at all
get_region(address) ==
    IF 0 <= address /\ address <= RamSize - 1 THEN "RAM"
    ELSE IF RomStart <= address /\ address <= RomStart + RomSize - 1 THEN "ROM"
    ELSE "none"

\* Memory.read
memory_read(r, address) ==
    LET a == Mask16(address) IN
    CASE get_region(a) = "RAM" -> Ok(Mask16(RamGet(r, a)))
      [] get_region(a) = "ROM" -> Ok(0)
      [] OTHER -> Err("Address not in any memory region")

\* Memory.write, on the machine record m
memory_write(m, address, value) ==
    LET a == Mask16(address) IN
    CASE get_region(a) = "none" -> Raise(m, "Address not in any memory region")
      [] get_region(a) = "ROM" -> Raise(m, "Cannot write to read-only memory")
      [] OTHER -> [m EXCEPT !.ram = RamSet(m.ram, a, Mask16(value))]

\* Memory.resolve_label
resolve_label(label) ==
    IF label \in DOMAIN labels THEN Ok(labels[label])
    ELSE IF ("func_" \o label) \in DOMAIN labels
         THEN Ok(labels["func_" \o label])
         ELSE Err("Undefined label")

\* Memory.fetch_instruction: the program is a 1-based sequence here
InProgram(p) == 0 <= p /\ p < Len(program)
fetch_instruction(p) == program[p + 1]

(***************************************************************************)
(* GPU (src/vm/gpu.py).  A buffer is kept as the set of its lit pixels     *)
(* <<x, y>>: bit 31 - x of row y is set exactly if <<x, y>> is in the set. *)
(***************************************************************************)
\* GPU.__init__
GPUInit ==
    [attached |-> TRUE, pygame_initialized |-> FALSE, gpu_register |-> 0,
     display_buffer_id |-> 0, edit_buffer_id |-> 0,
     buffer_0 |-> {}, buffer_1 |-> {}, command_count |-> 0,
     sprites |-> [id \in {} |-> 0], text_chars |-> [id \in {} |-> 0]]

\* CPU.gpu is None
NoGPU == [GPUInit EXCEPT !.attached = FALSE]

\* GPU.initialize_display
initialize_display(device) == [device EXCEPT !.pygame_initialized = TRUE]

\* value & 0xFFFFFFFF, for the values that reach the GPU register here:
\* 16-bit register contents and small immediates, all in 0 .. 2^31 - 1
Mask32(value) == value

\* variant: the display bit and the edit bit exchanged
update_buffers_from_register_swapped(d) ==
    [d EXCEPT !.display_buffer_id = (d.gpu_register \div 2) % 2,
              !.edit_buffer_id = d.gpu_register % 2]

\* GPU._update_buffers_from_register: bit 0 and bit 1 of the register
update_buffers_from_register(d) ==
    [d EXCEPT !.display_buffer_id = d.gpu_register % 2,
              !.edit_buffer_id = (d.gpu_register \div 2) % 2]

\* GPU.set_gpu_register
set_gpu_register(d, value) ==
    update_buffers_from_register([d EXCEPT !.gpu_register = Mask32(value)])

\* GPU.get_gpu_register
get_gpu_register(d) == d.gpu_register

\* GPU.get_edit_buffer: always synced from the register first
get_edit_buffer(d) ==
    IF update_buffers_from_register(d).edit_buffer_id = 0
    THEN d.buffer_0 ELSE d.buffer_1

\* GPU.get_display_buffer: always synced from the register first
get_display_buffer(d) ==
    IF update_buffers_from_register(d).display_buffer_id = 0
    THEN d.buffer_0 ELSE d.buffer_1

\* the list get_edit_buffer returned is changed in place: d is the GPU after
\* the sync of that call
edit_buffer_assigned(d, pixels) ==
    IF d.edit_buffer_id = 0 THEN [d EXCEPT !.buffer_0 = pixels]
    ELSE [d EXCEPT !.buffer_1 = pixels]

Smaller(a, b) == IF a <= b THEN a ELSE b
Larger(a, b) == IF a >= b THEN a ELSE b

\* the bits of mask = (0xFFFFFFFF >> (32 - width)) << (32 - x - width)
\* in the rows range(y, min(32, y + height)), nothing when width is 0
Rectangle(x, y, width, height) ==
    {<<column, row>> : column \in x .. x + width - 1,
                       row \in y .. Smaller(DisplaySize, y + height) - 1}

\* _fill_grid and _clear_grid: width and height clamped, x and y clamped
clamped_size(x, y, width, height) ==
    Rectangle(x, y, Larger(0, Smaller(DisplaySize - x, width)),
              Larger(0, Smaller(DisplaySize - y, height)))

\* _fill_grid and _clear_grid: x and y clamped to the screen
clamped_rectangle(operands) ==
    clamped_size(Larger(0, Smaller(DisplaySize - 1, operands[1])),
                 Larger(0, Smaller(DisplaySize - 1, operands[2])),
                 operands[3], operands[4])

\* GPU._fill_grid
fill_grid(d, operands) ==
    IF Len(operands) < 4 THEN d
    ELSE edit_buffer_assigned(update_buffers_from_register(d),
            get_edit_buffer(d) \cup clamped_rectangle(operands))

\* variant: the width and the height are clamped one short of the edge
clear_grid_short(d, operands) ==
    IF Len(operands) < 4 THEN d
    ELSE edit_buffer_assigned(update_buffers_from_register(d),
            get_edit_buffer(d) \
            Rectangle(Larger(0, Smaller(DisplaySize - 1, operands[1])),
                      Larger(0, Smaller(DisplaySize - 1, operands[2])),
                      Larger(0, Smaller(DisplaySize - 1 - operands[1],
                                        operands[3])),
                      Larger(0, Smaller(DisplaySize - 1 - operands[2],
                                        operands[4]))))

\* GPU._clear_grid
clear_grid(d, operands) ==
    IF Len(operands) < 4 THEN d
    ELSE edit_buffer_assigned(update_buffers_from_register(d),
            get_edit_buffer(d) \ clamped_rectangle(operands))

\* GPU.set_pixel
set_pixel(d, x, y, value) ==
    IF 0 <= x /\ x < DisplaySize /\ 0 <= y /\ y < DisplaySize
    THEN edit_buffer_assigned(update_buffers_from_register(d),
            IF value # 0 THEN get_edit_buffer(d) \cup {<<x, y>>}
            ELSE get_edit_buffer(d) \ {<<x, y>>})
    ELSE d

\* GPU._fill_row_range: the bits of ((1 << width) - 1) << (32 - x_start -
\* width) in row y, nothing when the width is not positive
fill_row_range(y, x_start, x_end) ==
    IF y < 0 \/ y >= DisplaySize THEN {}
    ELSE {<<column, y>> : column \in x_start .. x_end}

\* _draw_line: the span of one scanline, between x_position and x_next,
\* clamped to the extent of the line and to the screen
scanline(y_scan, x_position, x_next, x_bound_lo, x_bound_hi) ==
    fill_row_range(y_scan,
        Larger(0, Smaller(DisplaySize - 1,
            Larger(x_bound_lo, Smaller(x_position, x_next)))),
        Larger(0, Smaller(DisplaySize - 1,
            Smaller(x_bound_hi, Larger(x_position, x_next)))))

\* _draw_line: the scanlines of a line that is not horizontal
scanlines(x_at_y_min, x_at_y_max, y_min, y_max) ==
    UNION {scanline(y_scan,
                x_at_y_min + (((x_at_y_max - x_at_y_min) * (y_scan - y_min))
                                \div (y_max - y_min)),
                x_at_y_min + (((x_at_y_max - x_at_y_min) * (y_scan - y_min)
                                + (x_at_y_max - x_at_y_min))
                                \div (y_max - y_min)),
                Smaller(x_at_y_min, x_at_y_max),
                Larger(x_at_y_min, x_at_y_max)) : y_scan \in y_min .. y_max}

\* _draw_line, after its endpoints are clamped
line_pixels(x1, y1, x2, y2) ==
    IF y1 = y2
    THEN fill_row_range(y1, Smaller(x1, x2), Larger(x1, x2))
    ELSE scanlines(IF y1 < y2 THEN x1 ELSE x2, IF y1 < y2 THEN x2 ELSE x1,
                   Smaller(y1, y2), Larger(y1, y2))

\* GPU._draw_line
draw_line(d, operands) ==
    IF Len(operands) < 4 THEN d
    ELSE edit_buffer_assigned(update_buffers_from_register(d),
            get_edit_buffer(d) \cup
            line_pixels(Larger(0, Smaller(DisplaySize - 1, operands[1])),
                        Larger(0, Smaller(DisplaySize - 1, operands[2])),
                        Larger(0, Smaller(DisplaySize - 1, operands[3])),
                        Larger(0, Smaller(DisplaySize - 1, operands[4]))))

\* data & (1 << bit_index), as a truth value
BitSet(data, bit_index) == (data \div (2 ^ bit_index)) % 2 = 1

\* the pixels a pattern of the given width and height sets at (x, y)
pattern_pixels(data, columns, rows, x, y) ==
    {<<x + cr[1], y + cr[2]>> : cr \in
        {cr \in (0 .. columns - 1) \X (0 .. rows - 1) :
            /\ BitSet(data, cr[2] * columns + cr[1])
            /\ 0 <= x + cr[1] /\ x + cr[1] < DisplaySize
            /\ 0 <= y + cr[2] /\ y + cr[2] < DisplaySize}}

\* GPU._load_sprite: 5-bit id, 15 bits of data
load_sprite(d, operands) ==
    IF Len(operands) < 2 THEN d
    ELSE [d EXCEPT !.sprites =
            [id \in (DOMAIN @) \cup {operands[1] % 32} |->
                IF id = operands[1] % 32 THEN operands[2] % 32768 ELSE @[id]]]

\* GPU._draw_sprite
draw_sprite(d, operands) ==
    IF Len(operands) < 3 THEN d
    ELSE IF operands[1] % 32 \notin DOMAIN d.sprites THEN d
    ELSE edit_buffer_assigned(update_buffers_from_register(d),
            get_edit_buffer(d) \cup
            pattern_pixels(d.sprites[operands[1] % 32], 5, 3,
                Larger(0, Smaller(DisplaySize - 1 - 4, operands[2])),
                Larger(0, Smaller(DisplaySize - 1 - 2, operands[3]))))

\* GPU._load_text: 14-bit address, 6-bit character code
load_text(d, operands) ==
    IF Len(operands) < 2 THEN d
    ELSE [d EXCEPT !.text_chars =
            [id \in (DOMAIN @) \cup {operands[1] % 16384} |->
                IF id = operands[1] % 16384 THEN operands[2] % 64 ELSE @[id]]]

\* the character set: A-Z (0-25), 0-9 (26-35), !?+-*., (36-42)
CharacterSet ==
    <<"A", "B", "C", "D", "E", "F", "G", "H", "I", "J", "K",
      "L", "M", "N", "O", "P", "Q", "R", "S", "T", "U", "V",
      "W", "X", "Y", "Z", "0", "1", "2", "3", "4", "5", "6",
      "7", "8", "9", "!", "?", "+", "-", "*", ".", ",">>

\* GPU._decode_6bit_char
decode_6bit_char(code) ==
    IF code % 64 <= 42 THEN CharacterSet[(code % 64) + 1] ELSE "?"

\* GPU._create_3x4_font: the 12-bit pattern of each character
font_data ==
    [c \in {CharacterSet[i] : i \in 1 .. Len(CharacterSet)} |->
        CASE c = "A" -> 3055
          [] c = "B" -> 3963
          [] c = "C" -> 3663
          [] c = "D" -> 1899
          [] c = "E" -> 3679
          [] c = "F" -> 719
          [] c = "G" -> 3919
          [] c = "H" -> 2941
          [] c = "I" -> 3735
          [] c = "J" -> 1687
          [] c = "K" -> 2781
          [] c = "L" -> 3657
          [] c = "M" -> 3069
          [] c = "N" -> 2927
          [] c = "O" -> 3951
          [] c = "P" -> 1007
          [] c = "Q" -> 2543
          [] c = "R" -> 2815
          [] c = "S" -> 3983
          [] c = "T" -> 1175
          [] c = "U" -> 3949
          [] c = "V" -> 1389
          [] c = "W" -> 4093
          [] c = "X" -> 2973
          [] c = "Y" -> 1213
          [] c = "Z" -> 3703
          [] c = "0" -> 3950
          [] c = "1" -> 1171
          [] c = "2" -> 3815
          [] c = "3" -> 3895
          [] c = "4" -> 2541
          [] c = "5" -> 3871
          [] c = "6" -> 4047
          [] c = "7" -> 2471
          [] c = "8" -> 3967
          [] c = "9" -> 3903
          [] c = "!" -> 1042
          [] c = "?" -> 1063
          [] c = "+" -> 186
          [] c = "-" -> 56
          [] c = "*" -> 16
          [] c = "." -> 1024
          [] c = "," -> 1664]

\* GPU._draw_text: the slot is looked up by text_id as given
draw_text(d, operands) ==
    IF Len(operands) < 3 THEN d
    ELSE IF operands[1] \notin DOMAIN d.text_chars THEN d
    ELSE edit_buffer_assigned(update_buffers_from_register(d),
            get_edit_buffer(d) \cup
            pattern_pixels(
                font_data[decode_6bit_char(d.text_chars[operands[1]])], 3, 4,
                Larger(0, Smaller(DisplaySize - 1 - 2, operands[2])),
                Larger(0, Smaller(DisplaySize - 1 - 3, operands[3]))))

\* _scroll_buffer: new_buffer[row] = buffer[row + offy]
scrolled_rows(pixels, offy) ==
    IF offy = 0 THEN pixels
    ELSE {<<p[1], p[2] - offy>> : p \in
            {q \in pixels : 0 <= q[2] - offy /\ q[2] - offy < DisplaySize}}

\* _scroll_buffer: (buffer[row] << offx) & 0xFFFFFFFF for a positive offx,
\* buffer[row] >> (-offx) for a negative one; bit 31 - x is pixel x
scrolled_columns(pixels, offx) ==
    IF offx = 0 THEN pixels
    ELSE {<<p[1] - offx, p[2]>> : p \in
            {q \in pixels : 0 <= q[1] - offx /\ q[1] - offx < DisplaySize}}

\* variant: the scroll is applied to both buffers
scroll_buffer_both(d, operands) ==
    IF Len(operands) < 2 THEN d
    ELSE [update_buffers_from_register(d) EXCEPT
            !.buffer_0 = scrolled_columns(scrolled_rows(@, operands[2]),
                                          operands[1]),
            !.buffer_1 = scrolled_columns(scrolled_rows(@, operands[2]),
                                          operands[1])]

\* GPU._scroll_buffer
scroll_buffer(d, operands) ==
    IF Len(operands) < 2 THEN d
    ELSE edit_buffer_assigned(update_buffers_from_register(d),
            scrolled_columns(scrolled_rows(get_edit_buffer(d), operands[2]),
                             operands[1]))

\* GPU.execute_command
execute_command(d, opcode, operands) ==
    CASE opcode = "DRLINE" ->
            draw_line([d EXCEPT !.command_count = @ + 1], operands)
      [] opcode = "DRGRD" ->
            fill_grid([d EXCEPT !.command_count = @ + 1], operands)
      [] opcode = "CLRGRID" ->
            clear_grid([d EXCEPT !.command_count = @ + 1], operands)
      [] opcode = "LDSPR" ->
            load_sprite([d EXCEPT !.command_count = @ + 1], operands)
      [] opcode = "DRSPR" ->
            draw_sprite([d EXCEPT !.command_count = @ + 1], operands)
      [] opcode = "LDTXT" ->
            load_text([d EXCEPT !.command_count = @ + 1], operands)
      [] opcode = "DRTXT" ->
            draw_text([d EXCEPT !.command_count = @ + 1], operands)
      [] opcode = "SCRLBFR" ->
            scroll_buffer([d EXCEPT !.command_count = @ + 1], operands)

(***************************************************************************)
(* CPU (src/vm/cpu.py).  A machine record m holds the fields of the CPU    *)
(* and the RAM while one instruction executes; m.exc is the exception in   *)
(* flight, if any.  m.gpu is the GPU the CPU was built with, or NoGPU.     *)
(***************************************************************************)
\* CPU.get_register for a numeric register
get_register(m, reg_id) ==
    IF 0 <= reg_id /\ reg_id < NumRegisters THEN Ok(m.registers[reg_id])
    ELSE Err("Invalid register")

\* variant: the value is stored as it is given
set_register_unmasked(m, reg_id, value) ==
    IF 0 <= reg_id /\ reg_id < NumRegisters
    THEN [m EXCEPT !.registers[reg_id] = value]
    ELSE Raise(m, "Invalid register")

\* CPU.set_register for a numeric register
set_register(m, reg_id, value) ==
    IF 0 <= reg_id /\ reg_id < NumRegisters
    THEN [m EXCEPT !.registers[reg_id] = Mask16(value)]
    ELSE Raise(m, "Invalid register")

\* CPU._resolve_operand: a register operand resolves to its NUMBER
resolve_operand(op) ==
    CASE op.k = "imm" -> Ok(op.n)
      [] op.k = "ilab" -> resolve_label(op.s)
      [] op.k = "hex" -> Ok(op.n)
      [] op.k = "reg" -> Ok(op.n)
      [] op.k = "lab" -> resolve_label(op.s)

\* _get_operand_value for a name that is a label: the label's address is
\* taken as a register number
register_named(m, r) ==
    IF r.exc # NoExc THEN r ELSE get_register(m, r.v)

\* CPU._get_operand_value.  Of an immediate i:0xFFFFnnnn the lower half is
\* the value: the generator emits one only as the mask of an AND with a
\* 16-bit register, and a & 0xFFFFnnnn = a & 0xnnnn for a below 2^16
get_operand_value(m, op) ==
    CASE op.k = "imm" -> Ok(op.n)
      [] op.k = "immw" -> Ok(op.n)
      [] op.k = "ilab" ->
            IF op.s \in DOMAIN labels THEN Ok(labels[op.s])
            ELSE resolve_label(op.s)
      [] op.k = "hex" -> Ok(op.n)
      [] op.k = "reg" -> get_register(m, op.n)
      [] op.k = "special" ->
            IF m.gpu.attached THEN Ok(get_gpu_register(m.gpu)) ELSE Ok(0)
      [] op.k = "lab" -> register_named(m, resolve_label(op.s))

\* the operand pattern shared by LOAD, READ and MVM: i: form, 0x form,
\* else int(operand) names a register whose value is used
ValueOrAddress(m, op, msg) ==
    CASE op.k \in {"imm", "ilab"} -> resolve_operand(op)
      [] op.k = "hex" -> Ok(op.n)
      [] op.k = "reg" -> get_register(m, op.n)
      [] OTHER -> Err(msg)

\* _exec_load, after its two operands are evaluated
load_store(m, value, ram_addr) ==
    IF value.exc # NoExc THEN Raise(m, value.exc)
    ELSE IF ram_addr.exc # NoExc THEN Raise(m, ram_addr.exc)
    ELSE memory_write(m, ram_addr.v, value.v)

exec_load(m, instr) ==
    IF Len(instr.operands) # 2 THEN Raise(m, "LOAD requires 2 operands")
    ELSE load_store(m,
            ValueOrAddress(m, instr.operands[1], "Invalid source operand"),
            ValueOrAddress(m, instr.operands[2],
                           "Invalid destination address operand"))

\* _exec_read: set_register(dest_reg, value)
read_set(m, dest_reg, value) ==
    IF value.exc # NoExc THEN Raise(m, value.exc)
    ELSE set_register(m, dest_reg, value.v)

\* _exec_read, after the address operand is evaluated
read_fetch(m, ram_addr, dst) ==
    IF ram_addr.exc # NoExc THEN Raise(m, ram_addr.exc)
    ELSE IF ~(dst.k = "reg" /\ 0 <= dst.n /\ dst.n < NumRegisters)
    THEN Raise(m, "Invalid destination register")
    ELSE read_set(m, dst.n, memory_read(m.ram, ram_addr.v))

exec_read(m, instr) ==
    IF Len(instr.operands) # 2 THEN Raise(m, "READ requires 2 operands")
    ELSE IF IsImmediateForm(instr.operands[2])
    THEN Raise(m, "READ destination cannot be immediate value")
    ELSE read_fetch(m,
            ValueOrAddress(m, instr.operands[1], "Invalid RAM address operand"),
            instr.operands[2])

\* _exec_mvr, after the source operand is evaluated
mvr_set(m, value, dst) ==
    IF value.exc # NoExc THEN Raise(m, value.exc)
    ELSE CASE dst.k = "reg" ->
                IF 0 <= dst.n /\ dst.n < NumRegisters
                THEN set_register(m, dst.n, value.v)
                ELSE Raise(m, "Invalid destination register")
           [] dst.k = "special" ->
                IF m.gpu.attached
                THEN [m EXCEPT !.gpu = set_gpu_register(@, Mask32(value.v))]
                ELSE m
           [] OTHER -> Raise(m, "Invalid destination register")

exec_mvr(m, instr) ==
    IF Len(instr.operands) # 2 THEN Raise(m, "MVR requires 2 operands")
    ELSE IF IsImmediateForm(instr.operands[2])
    THEN Raise(m, "MVR destination cannot be immediate value")
    ELSE mvr_set(m, get_operand_value(m, instr.operands[1]),
                 instr.operands[2])

\* _exec_mvm: memory.write(dst_addr, value)
mvm_write(m, dst_addr, value) ==
    IF value.exc # NoExc THEN Raise(m, value.exc)
    ELSE memory_write(m, dst_addr, value.v)

\* _exec_mvm, after its two operands are evaluated
mvm_copy(m, src_addr, dst_addr) ==
    IF src_addr.exc # NoExc THEN Raise(m, src_addr.exc)
    ELSE IF dst_addr.exc # NoExc THEN Raise(m, dst_addr.exc)
    ELSE mvm_write(m, dst_addr.v, memory_read(m.ram, src_addr.v))

exec_mvm(m, instr) ==
    IF Len(instr.operands) # 2 THEN Raise(m, "MVM requires 2 operands")
    ELSE mvm_copy(m,
            ValueOrAddress(m, instr.operands[1],
                           "Invalid source address operand"),
            ValueOrAddress(m, instr.operands[2],
                           "Invalid destination address operand"))

(***************************************************************************)
(* Integer helpers.  Operands are naturals below 2^31; products are taken  *)
(* on 8-bit limbs so that no intermediate value exceeds 31 bits.           *)
(***************************************************************************)
RECURSIVE BitAnd(_, _)
BitAnd(a, b) ==
    IF a = 0 \/ b = 0 THEN 0
    ELSE (a % 2) * (b % 2) + 2 * BitAnd(a \div 2, b \div 2)

RECURSIVE BitOr(_, _)
BitOr(a, b) ==
    IF a = 0 THEN b ELSE IF b = 0 THEN a
    ELSE (IF a % 2 = 1 \/ b % 2 = 1 THEN 1 ELSE 0)
         + 2 * BitOr(a \div 2, b \div 2)

RECURSIVE BitXor(_, _)
BitXor(a, b) ==
    IF a = 0 THEN b ELSE IF b = 0 THEN a
    ELSE ((a + b) % 2) + 2 * BitXor(a \div 2, b \div 2)

\* (a << b) & 0xFFFF
ShiftLeft16(a, b) == IF b >= 16 THEN 0 ELSE Mask16(Mask16(a) * (2 ^ b))

\* (a >> b) & 0xFFFF
ShiftRight16(a, b) == IF b >= 31 THEN 0 ELSE Mask16(a \div (2 ^ b))

\* ((a << b) | (a >> (16 - b))) & 0xFFFF  with a < 2^16 and b < 16
RotateLeft16(a, b) == Mask16(Mask16(a * (2 ^ b)) + (a \div (2 ^ (16 - b))))

\* (a * b) & 0xFFFF and ((a * b) >> 16) & 0xFFFF for a, b < 2^16
MulMiddle(a, b) == (a \div 256) * (b % 256) + (a % 256) * (b \div 256)
MulLow16(a, b) == Mask16((MulMiddle(a, b) % 256) * 256 + (a % 256) * (b % 256))
MulHigh16(a, b) ==
    Mask16((a \div 256) * (b \div 256)
           + ((MulMiddle(a, b) * 256 + (a % 256) * (b % 256))
              \div (WordMask + 1)))

\* the two operand values of a binary ALU instruction, left first
BothValues(a, b) ==
    IF a.exc # NoExc THEN [exc |-> a.exc, a |-> 0, b |-> 0]
    ELSE IF b.exc # NoExc THEN [exc |-> b.exc, a |-> 0, b |-> 0]
    ELSE [exc |-> NoExc, a |-> a.v, b |-> b.v]

TwoValues(m, instr) ==
    BothValues(get_operand_value(m, instr.operands[1]),
               get_operand_value(m, instr.operands[2]))

\* the value each single-result ALU handler computes from a and b
AluResult(opcode, a, b) ==
    CASE opcode = "ADD" -> a + b
      [] opcode = "SUB" -> a - b
      [] opcode = "SHL" -> ShiftLeft16(a, b)
      [] opcode = "SHR" -> ShiftRight16(a, b)
      [] opcode = "SHLR" -> RotateLeft16(Mask16(a), b % 16)
      [] opcode = "AND" -> BitAnd(a, b)
      [] opcode = "OR" -> BitOr(a, b)
      [] opcode = "XOR" -> BitXor(a, b)

\* self.set_register(self.RETURN_VALUE_REG, result)
alu_store(m, o, opcode) ==
    IF o.exc # NoExc THEN Raise(m, o.exc)
    ELSE set_register(m, RETURN_VALUE_REG, AluResult(opcode, o.a, o.b))

exec_add(m, instr) ==
    IF Len(instr.operands) # 2 THEN Raise(m, "ADD requires 2 operands")
    ELSE alu_store(m, TwoValues(m, instr), "ADD")

exec_sub(m, instr) ==
    IF Len(instr.operands) # 2 THEN Raise(m, "SUB requires 2 operands")
    ELSE alu_store(m, TwoValues(m, instr), "SUB")

mult_store(m, o) ==
    IF o.exc # NoExc THEN Raise(m, o.exc)
    ELSE set_register(set_register(m, RETURN_VALUE_REG, MulLow16(o.a, o.b)),
                      SECONDARY_RETURN_REG, MulHigh16(o.a, o.b))

exec_mult(m, instr) ==
    IF Len(instr.operands) # 2 THEN Raise(m, "MULT requires 2 operands")
    ELSE mult_store(m, TwoValues(m, instr))

div_store(m, o) ==
    IF o.exc # NoExc THEN Raise(m, o.exc)
    ELSE IF o.b = 0 THEN Raise(m, "Division by zero")
    ELSE set_register(set_register(m, RETURN_VALUE_REG, o.a \div o.b),
                      SECONDARY_RETURN_REG, o.a % o.b)

exec_div(m, instr) ==
    IF Len(instr.operands) # 2 THEN Raise(m, "DIV requires 2 operands")
    ELSE div_store(m, TwoValues(m, instr))

exec_shl(m, instr) ==
    IF Len(instr.operands) # 2 THEN Raise(m, "SHL requires 2 operands")
    ELSE alu_store(m, TwoValues(m, instr), "SHL")

exec_shr(m, instr) ==
    IF Len(instr.operands) # 2 THEN Raise(m, "SHR requires 2 operands")
    ELSE alu_store(m, TwoValues(m, instr), "SHR")

exec_shlr(m, instr) ==
    IF Len(instr.operands) # 2 THEN Raise(m, "SHLR requires 2 operands")
    ELSE alu_store(m, TwoValues(m, instr), "SHLR")

exec_and(m, instr) ==
    IF Len(instr.operands) # 2 THEN Raise(m, "AND requires 2 operands")
    ELSE alu_store(m, TwoValues(m, instr), "AND")

exec_or(m, instr) ==
    IF Len(instr.operands) # 2 THEN Raise(m, "OR requires 2 operands")
    ELSE alu_store(m, TwoValues(m, instr), "OR")

exec_xor(m, instr) ==
    IF Len(instr.operands) # 2 THEN Raise(m, "XOR requires 2 operands")
    ELSE alu_store(m, TwoValues(m, instr), "XOR")

\* _exec_not: (~a) & 0xFFFF written back to the same register
not_store(m, reg_num, a) ==
    IF a.exc # NoExc THEN Raise(m, a.exc)
    ELSE set_register(m, reg_num, WordMask - a.v)

exec_not(m, instr) ==
    IF Len(instr.operands) # 1 THEN Raise(m, "NOT requires 1 operand")
    ELSE IF IsImmediateForm(instr.operands[1])
    THEN Raise(m, "NOT operand cannot be immediate value")
    ELSE IF instr.operands[1].k # "reg"
    THEN Raise(m, "invalid literal for int()")
    ELSE not_store(m, instr.operands[1].n,
                   get_register(m, instr.operands[1].n))

(***************************************************************************)
(* Jumps.  The programs considered never name the special register GPU as  *)
(* a jump target, so a target always resolves to an integer or raises.     *)
(***************************************************************************)
\* self.pc = target
jump_to(m, target) ==
    IF target.exc # NoExc THEN Raise(m, target.exc)
    ELSE [m EXCEPT !.pc = target.v]

exec_jmp(m, instr) ==
    IF Len(instr.operands) # 1 THEN Raise(m, "JMP requires 1 operand")
    ELSE IF instr.operands[1].k = "reg" /\ instr.operands[1].n >= 0
    THEN jump_to(m, get_register(m, instr.operands[1].n))
    ELSE jump_to(m, resolve_operand(instr.operands[1]))

exec_jal(m, instr) ==
    IF Len(instr.operands) # 1 THEN Raise(m, "JAL requires 1 operand")
    ELSE jump_to(set_register(m, SECONDARY_RETURN_REG, m.pc + 1),
                 resolve_operand(instr.operands[1]))

\* _exec_jbt, after target, x and y are evaluated in that order
jbt_branch(m, target, x, y) ==
    IF target.exc # NoExc THEN Raise(m, target.exc)
    ELSE IF x.exc # NoExc THEN Raise(m, x.exc)
    ELSE IF y.exc # NoExc THEN Raise(m, y.exc)
    ELSE IF x.v > y.v THEN [m EXCEPT !.pc = target.v]
    ELSE [m EXCEPT !.pc = @ + 1]

exec_jbt(m, instr) ==
    IF Len(instr.operands) # 3 THEN Raise(m, "JBT requires 3 operands")
    ELSE jbt_branch(m, resolve_operand(instr.operands[1]),
                    get_operand_value(m, instr.operands[2]),
                    get_operand_value(m, instr.operands[3]))

\* _exec_jz, after target and x are evaluated in that order
jz_branch(m, target, x) ==
    IF target.exc # NoExc THEN Raise(m, target.exc)
    ELSE IF x.exc # NoExc THEN Raise(m, x.exc)
    ELSE IF x.v = 0 THEN [m EXCEPT !.pc = target.v]
    ELSE [m EXCEPT !.pc = @ + 1]

exec_jz(m, instr) ==
    IF Len(instr.operands) # 2 THEN Raise(m, "JZ requires 2 operands")
    ELSE jz_branch(m, resolve_operand(instr.operands[1]),
                   get_operand_value(m, instr.operands[2]))

\* _exec_jnz, after target and x are evaluated in that order
jnz_branch(m, target, x) ==
    IF target.exc # NoExc THEN Raise(m, target.exc)
    ELSE IF x.exc # NoExc THEN Raise(m, x.exc)
    ELSE IF x.v # 0 THEN [m EXCEPT !.pc = target.v]
    ELSE [m EXCEPT !.pc = @ + 1]

exec_jnz(m, instr) ==
    IF Len(instr.operands) # 2 THEN Raise(m, "JNZ requires 2 operands")
    ELSE jnz_branch(m, resolve_operand(instr.operands[1]),
                    get_operand_value(m, instr.operands[2]))

\* CPU.read_input_char on a non-empty buffer
InputGet(buf, i) == IF i \in DOMAIN buf THEN buf[i] ELSE 0

\* _exec_keyin: a failed memory.write is re-raised as a CPUException
keyin_wrap(m, w) ==
    IF w.exc # NoExc THEN Raise(m, "KEYIN memory write failed") ELSE w

\* _exec_keyin: memory.write(address, char_code); the address 'GPU' is
\* not an integer and makes the write fail
keyin_store(m, operand, address, char_code) ==
    IF operand.k = "special" THEN Raise(m, "KEYIN memory write failed")
    ELSE keyin_wrap(m, memory_write(m, address, char_code))

\* CPU.add_input_char
add_input_char(m, char_code) ==
    [m EXCEPT !.input_buffer = RamSet(@, m.input_write_pos, char_code),
              !.input_write_pos = (@ + 1) % InputBufferSize]

\* CPU.backspace_input
backspace_input(m) ==
    IF m.input_write_pos # m.input_read_pos
    THEN [m EXCEPT !.input_write_pos = (@ - 1) % InputBufferSize]
    ELSE m

\* CPU._read_stdin_char: ch is the code of the character typed, NoValue
\* for an empty line or a failed read
read_stdin_char(ch) == IF ch = NoValue THEN 0 ELSE ch

\* CPU._blocking_read_input_char on an empty buffer: update_display either
\* handles the key ch, which the loop then reads, or finds the window
\* closed (ch NoValue), which stops the CPU and returns 0
blocking_read_input_char(m, ch) ==
    IF ch = NoValue THEN [m EXCEPT !.state = STOPPED]
    ELSE [add_input_char(m, ch) EXCEPT
            !.input_read_pos = (@ + 1) % InputBufferSize]

\* _exec_keyin, after the address is resolved: a queued character is
\* preferred; else the CPU waits for a key with a display, and reads
\* stdin without one
keyin_read(m, operand, address, ch) ==
    IF address.exc # NoExc THEN Raise(m, address.exc)
    ELSE IF m.input_read_pos # m.input_write_pos
    THEN keyin_store(
            [m EXCEPT !.input_read_pos = (@ + 1) % InputBufferSize],
            operand, address.v, InputGet(m.input_buffer, m.input_read_pos))
    ELSE IF m.gpu.attached /\ m.gpu.pygame_initialized
    THEN keyin_store(blocking_read_input_char(m, ch), operand, address.v,
                     read_stdin_char(ch))
    ELSE keyin_store(m, operand, address.v, read_stdin_char(ch))

exec_keyin(m, instr, ch) ==
    IF Len(instr.operands) # 1 THEN Raise(m, "KEYIN requires 1 operand")
    ELSE keyin_read(m, instr.operands[1],
                    IF instr.operands[1].k = "special" THEN Ok(0)
                    ELSE resolve_operand(instr.operands[1]),
                    ch)

exec_halt(m, instr) ==
    [m EXCEPT !.state = STOPPED, !.halt_reason = "HALT instruction executed"]

\* _exec_gpu, once every operand is resolved
gpu_command(m, instr, resolved) ==
    IF \E i \in DOMAIN resolved : resolved[i].exc # NoExc
    THEN Raise(m, resolved[CHOOSE i \in DOMAIN resolved :
                    /\ resolved[i].exc # NoExc
                    /\ \A j \in 1 .. i - 1 : resolved[j].exc = NoExc].exc)
    ELSE [m EXCEPT !.gpu = execute_command(@, instr.opcode,
                    [i \in DOMAIN resolved |-> resolved[i].v])]

\* CPU._exec_gpu: GPU commands are ignored when self.gpu is None
exec_gpu(m, instr) ==
    IF m.gpu.attached
    THEN gpu_command(m, instr,
            [i \in 1 .. Len(instr.operands) |->
                get_operand_value(m, instr.operands[i])])
    ELSE m

Handler(m, instr, ch) ==
    CASE instr.opcode = "LOAD" -> exec_load(m, instr)
      [] instr.opcode = "READ" -> exec_read(m, instr)
      [] instr.opcode = "MVR" -> exec_mvr(m, instr)
      [] instr.opcode = "MVM" -> exec_mvm(m, instr)
      [] instr.opcode = "ADD" -> exec_add(m, instr)
      [] instr.opcode = "SUB" -> exec_sub(m, instr)
      [] instr.opcode = "MULT" -> exec_mult(m, instr)
      [] instr.opcode = "DIV" -> exec_div(m, instr)
      [] instr.opcode = "SHL" -> exec_shl(m, instr)
      [] instr.opcode = "SHR" -> exec_shr(m, instr)
      [] instr.opcode = "SHLR" -> exec_shlr(m, instr)
      [] instr.opcode = "AND" -> exec_and(m, instr)
      [] instr.opcode = "OR" -> exec_or(m, instr)
      [] instr.opcode = "XOR" -> exec_xor(m, instr)
      [] instr.opcode = "NOT" -> exec_not(m, instr)
      [] instr.opcode = "JMP" -> exec_jmp(m, instr)
      [] instr.opcode = "JAL" -> exec_jal(m, instr)
      [] instr.opcode = "JBT" -> exec_jbt(m, instr)
      [] instr.opcode = "JZ" -> exec_jz(m, instr)
      [] instr.opcode = "JNZ" -> exec_jnz(m, instr)
      [] instr.opcode = "KEYIN" -> exec_keyin(m, instr, ch)
      [] instr.opcode = "HALT" -> exec_halt(m, instr)
      [] instr.opcode \in GpuOpcodes -> exec_gpu(m, instr)

\* _execute_instruction: advance PC unless the instruction set it
advance_pc(r, instr) ==
    IF r.exc # NoExc THEN r
    ELSE IF instr.opcode \notin JumpOpcodes THEN [r EXCEPT !.pc = @ + 1]
    ELSE r

\* variant: the PC of a non-jump instruction advances before its handler
\* runs
execute_instruction_advance_first(m, instr, ch) ==
    IF instr.opcode \notin instruction_handlers
    THEN Raise(m, "Unknown instruction")
    ELSE IF instr.opcode \in JumpOpcodes THEN Handler(m, instr, ch)
    ELSE Handler([m EXCEPT !.pc = @ + 1], instr, ch)

\* CPU._execute_instruction
execute_instruction(m, instr, ch) ==
    IF instr.opcode \notin instruction_handlers
    THEN Raise(m, "Unknown instruction")
    ELSE advance_pc(Handler(m, instr, ch), instr)

\* variant: an instruction that stops the machine is not counted
step_result_halt_not_counted(r) ==
    IF r.exc # NoExc
    THEN [r EXCEPT !.state = ERROR, !.halt_reason = r.exc]
    ELSE IF r.state = STOPPED THEN r
    ELSE [r EXCEPT !.instruction_count = @ + 1, !.cycle_count = @ + 1]

\* CPU.step, after _execute_instruction: count the instruction, or record
\* the exception (which is then re-raised to the caller: r.exc keeps it)
step_result(r) ==
    IF r.exc # NoExc
    THEN [r EXCEPT !.state = ERROR, !.halt_reason = r.exc]
    ELSE [r EXCEPT !.instruction_count = @ + 1, !.cycle_count = @ + 1]

\* CPU.step
step(m, ch) ==
    IF m.state # RUNNING THEN m
    ELSE IF ~InProgram(m.pc)
    THEN [m EXCEPT !.state = STOPPED, !.halt_reason = "End of program"]
    ELSE step_result(execute_instruction(m, fetch_instruction(m.pc), ch))

(***************************************************************************)
(* The machine as a state machine                                          *)
(***************************************************************************)
Machine ==
    [registers |-> registers, pc |-> pc, state |-> state,
     halt_reason |-> halt_reason, instruction_count |-> instruction_count,
     cycle_count |-> cycle_count, ram |-> ram,
     input_buffer |-> input_buffer,
     input_read_pos |-> input_read_pos, input_write_pos |-> input_write_pos,
     gpu |-> gpu, exc |-> NoExc]

Install(m) ==
    /\ registers' = m.registers
    /\ pc' = m.pc
    /\ state' = m.state
    /\ halt_reason' = m.halt_reason
    /\ instruction_count' = m.instruction_count
    /\ cycle_count' = m.cycle_count
    /\ ram' = m.ram
    /\ input_buffer' = m.input_buffer
    /\ input_read_pos' = m.input_read_pos
    /\ input_write_pos' = m.input_write_pos
    /\ gpu' = m.gpu
    /\ history' = [history EXCEPT
            !.added = @ + (IF m.input_write_pos # input_write_pos
                           THEN 1 ELSE 0),
            !.consumed = @ + (IF m.input_read_pos # input_read_pos
                              THEN 1 ELSE 0)]

\* the character codes _read_stdin_char can return are 0..42
StdinChars == {0, 7, 42}

\* what reaches a KEYIN that finds the buffer empty: a character, or none
Arrivals == StdinChars \cup {NoValue}

\* no load_program_string call has failed: otherwise the line the
\* AssemblyLoaderError names and what it reports
NoLoadError == [line |-> 0, message |-> ""]

\* no character has passed through the input buffer, no load has failed
NoHistory ==
    [added |-> 0, consumed |-> 0, removed |-> 0, load_error |-> NoLoadError]

\* no call of CPU.run or VirtualMachine.start is in progress; otherwise
\* loop names the loop, max_cycles is its argument (NoValue for None) and
\* cycles its local counter
NoRun == [loop |-> "none", max_cycles |-> NoValue, cycles |-> 0]

EmptyRam == [a \in {} |-> 0]

\* CPU.__init__, Memory.__init__, VirtualMachine.__init__ and then
\* load_program_string, which leaves pc at 0
InitMachine(prog, device) ==
    /\ program = prog.program
    /\ labels = prog.labels
    /\ registers = [r \in 0 .. NumRegisters - 1 |-> 0]
    /\ pc = 0
    /\ state = STOPPED
    /\ halt_reason = None
    /\ instruction_count = 0
    /\ cycle_count = 0
    /\ ram = EmptyRam
    /\ input_buffer = EmptyRam
    /\ input_read_pos = 0
    /\ input_write_pos = 0
    /\ running = FALSE
    /\ breakpoints = {}
    /\ gpu = device
    /\ history = NoHistory
    /\ run_frame = NoRun

\* create_vm({'enable_gpu': False}): the CPU has no GPU
InitVM(prog) == InitMachine(prog, NoGPU)

\* CPU.step called by a host
CPUStep ==
    /\ state = RUNNING => instruction_count < MaxSteps
    /\ \E ch \in Arrivals : Install(step(Machine, ch))
    /\ UNCHANGED <<program, labels, running, breakpoints, run_frame>>
    /\ UNCHANGED compilerVars

\* VirtualMachine.step
VMStep ==
    /\ instruction_count < MaxSteps
    /\ LET m == IF ~running THEN [Machine EXCEPT !.state = RUNNING]
                ELSE Machine IN
       IF m.pc \in breakpoints
       THEN Install([m EXCEPT !.state = BREAKPOINT])
       ELSE \E ch \in Arrivals : Install(step(m, ch))
    /\ UNCHANGED <<program, labels, running, breakpoints, run_frame>>
    /\ UNCHANGED compilerVars

\* the first statement of CPU.run; its loop iterations are CPUStep
StartRun ==
    /\ state' = RUNNING
    /\ UNCHANGED <<program, labels, registers, pc, halt_reason,
                   instruction_count, cycle_count, ram, input_buffer,
                   input_read_pos, input_write_pos, running, breakpoints>>
    /\ UNCHANGED <<compilerVars, deviceVars>>

\* VirtualMachine.set_breakpoint
set_breakpoint(address) ==
    /\ breakpoints' = breakpoints \cup {address}
    /\ UNCHANGED <<program, labels, registers, pc, state, halt_reason,
                   instruction_count, cycle_count, ram, input_buffer,
                   input_read_pos, input_write_pos, running>>
    /\ UNCHANGED <<compilerVars, deviceVars>>

\* VirtualMachine.clear_breakpoint
clear_breakpoint(address) ==
    /\ breakpoints' = breakpoints \ {address}
    /\ UNCHANGED <<program, labels, registers, pc, state, halt_reason,
                   instruction_count, cycle_count, ram, input_buffer,
                   input_read_pos, input_write_pos, running>>
    /\ UNCHANGED <<compilerVars, deviceVars>>

(***************************************************************************)
(* Hand-written assembly programs, as the loader would produce them        *)
(***************************************************************************)
NoLabels == [l \in {} |-> 0]

\* tests/test_jump_instructions.py, jal_basic_call
ProgJalCall ==
    [program |-> << Instruction("JAL", <<Name("subroutine")>>),
                    Instruction("MVR", <<Imm(99), Reg(3)>>),
                    Instruction("HALT", <<>>),
                    Instruction("MVR", <<Imm(42), Reg(5)>>),
                    Instruction("HALT", <<>>) >>,
     labels |-> ("subroutine" :> 3)]

\* tests/test_jump_instructions.py, jal_with_return
ProgJalReturn ==
    [program |-> << Instruction("MVR", <<Imm(10), Reg(0)>>),
                    Instruction("JAL", <<Name("func")>>),
                    Instruction("MVR", <<Imm(20), Reg(4)>>),
                    Instruction("HALT", <<>>),
                    Instruction("MVR", <<Imm(5), Reg(3)>>),
                    Instruction("JMP", <<Reg(2)>>) >>,
     labels |-> ("func" :> 4)]

ProgHaltMiddle ==
    [program |-> << Instruction("MVR", <<Imm(1), Reg(6)>>),
                    Instruction("HALT", <<>>),
                    Instruction("MVR", <<Imm(2), Reg(6)>>),
                    Instruction("LOAD", <<Reg(6), Imm(4096)>>),
                    Instruction("HALT", <<>>) >>,
     labels |-> NoLabels]

ProgArith ==
    [program |-> << Instruction("MVR", <<Imm(40000), Reg(6)>>),
                    Instruction("ADD", <<Reg(6), Reg(6)>>),
                    Instruction("SUB", <<Imm(3), Reg(6)>>),
                    Instruction("MULT", <<Reg(0), Reg(6)>>),
                    Instruction("DIV", <<Reg(6), Imm(7)>>),
                    Instruction("SHL", <<Reg(6), Imm(3)>>),
                    Instruction("SHR", <<Reg(6), Hex(2)>>),
                    Instruction("SHLR", <<Reg(6), Imm(4)>>),
                    Instruction("AND", <<Reg(6), Hex(4080)>>),
                    Instruction("OR", <<Reg(0), Imm(5)>>),
                    Instruction("XOR", <<Reg(0), Reg(6)>>),
                    Instruction("NOT", <<Reg(0)>>) >>,
     labels |-> NoLabels]

ProgMemory ==
    [program |-> << Instruction("LOAD", <<Imm(5), Imm(4096)>>),
                    Instruction("READ", <<Imm(4096), Reg(7)>>),
                    Instruction("MVM", <<Imm(4096), Hex(8192)>>),
                    Instruction("KEYIN", <<Imm(4097)>>),
                    Instruction("READ", <<Hex(32768), Reg(7)>>),
                    Instruction("LOAD", <<Reg(7), Imm(69632)>>),
                    Instruction("DRLINE", <<Imm(0), Imm(0), Imm(3), Imm(3)>>),
                    Instruction("MVR", <<Reg(7), Name("GPU")>>),
                    Instruction("MVR", <<Name("GPU"), Reg(8)>>),
                    Instruction("HALT", <<>>) >>,
     labels |-> NoLabels]

ProgBranch ==
    [program |-> << Instruction("MVR", <<Imm(2), Reg(6)>>),
                    Instruction("SUB", <<Reg(6), Imm(1)>>),
                    Instruction("MVR", <<Reg(0), Reg(6)>>),
                    Instruction("JNZ", <<Name("loop"), Reg(6)>>),
                    Instruction("JZ", <<Name("skip"), Reg(6)>>),
                    Instruction("HALT", <<>>),
                    Instruction("JBT", <<Name("loop"), Reg(6), Imm(0)>>),
                    Instruction("JBT", <<ImmLabel("end"), Imm(1), Reg(6)>>),
                    Instruction("HALT", <<>>),
                    Instruction("JMP", <<Imm(12)>>) >>,
     labels |-> ("loop" :> 1) @@ ("skip" :> 6) @@ ("func_end" :> 9)]

\* tests/test_mvr_instruction.py, test_mvr_16bit_overflow: values outside
\* 16 bits written to a register, by MVR and by the ALU
ProgOverflow ==
    [program |-> << Instruction("MVR", <<Imm(65536), Reg(0)>>),
                    Instruction("MVR", <<Imm(65537), Reg(0)>>),
                    Instruction("MVR", <<Imm(-1), Reg(0)>>),
                    Instruction("ADD", <<Reg(0), Imm(1)>>),
                    Instruction("SUB", <<Imm(0), Imm(1)>>),
                    Instruction("MVR", <<Hex(1048575), Reg(31)>>),
                    Instruction("HALT", <<>>) >>,
     labels |-> NoLabels]

\* instructions that fail at run time
FailingInstructions ==
    { Instruction("FOO", <<Reg(6)>>),
      Instruction("DIV", <<Reg(6), Imm(0)>>),
      Instruction("DIV", <<Reg(6), Reg(7)>>),
      Instruction("ADD", <<Reg(6), Reg(40)>>),
      Instruction("MVR", <<Imm(1), Reg(32)>>),
      Instruction("NOT", <<Reg(-1)>>),
      Instruction("LOAD", <<Imm(1), Imm(49152)>>),
      Instruction("LOAD", <<Imm(1), Hex(32768)>>),
      Instruction("READ", <<Imm(65535), Reg(6)>>),
      Instruction("MVM", <<Reg(6), Imm(49152)>>),
      Instruction("KEYIN", <<Imm(49152)>>),
      Instruction("JMP", <<Name("nowhere")>>),
      Instruction("JAL", <<Name("nowhere")>>),
      Instruction("JZ", <<Name("nowhere"), Reg(7)>>),
      Instruction("SUB", <<Reg(6)>>) }

ProgFailing(f) ==
    [program |-> << Instruction("MVR", <<Imm(7), Reg(6)>>),
                    f,
                    Instruction("HALT", <<>>) >>,
     labels |-> NoLabels]

CPUPrograms ==
    {ProgJalCall, ProgJalReturn, ProgHaltMiddle, ProgArith, ProgMemory,
     ProgBranch, ProgOverflow}
    \cup {ProgFailing(f) : f \in FailingInstructions}

BreakpointAddresses == {1}


(***************************************************************************)
(* Compiler back end (src/compiler/symbol_table.py).  A compiler record t  *)
(* holds the SymbolTable with its MemoryManager (t.mm) and                 *)
(* RegisterAllocator (t.ra), the instructions emitted so far, and the      *)
(* outcome of the last call: t.ret (NoValue for None), t.ok, t.exc.        *)
(***************************************************************************)
\* Python dictionaries
EmptyDict == [x \in {} |-> 0]
Put(f, k, v) == [x \in (DOMAIN f) \cup {k} |-> IF x = k THEN v ELSE f[x]]
Del(f, k) == [x \in (DOMAIN f) \ {k} |-> f[x]]
Get(f, k, default) == IF k \in DOMAIN f THEN f[k] ELSE default

Returning(t, v) == [t EXCEPT !.ret = v]
Failing(t, msg) == [t EXCEPT !.exc = msg, !.ret = NoValue]

(***************************************************************************)
(* MemoryManager.  A segment is identified by its start address; the       *)
(* neighbour links hold start addresses, NoValue for None.                 *)
(***************************************************************************)
DefaultRamStart == 4096
DefaultRamSize == 4096

\* MemorySegment.size
SegmentSize(mm, s) == mm.segments[s].end_address - s + 1

\* MemoryManager._get_size_bucket
get_size_bucket(size) ==
    IF 1 <= size /\ size <= 4 THEN 0
    ELSE IF 5 <= size /\ size <= 16 THEN 1
    ELSE IF 17 <= size /\ size <= 64 THEN 2
    ELSE 3

\* bisect.insort on a list ordered by start address
RECURSIVE InsortAt(_, _, _)
InsortAt(segs, s, i) ==
    IF i > Len(segs) \/ s < segs[i]
    THEN SubSeq(segs, 1, i - 1) \o <<s>> \o SubSeq(segs, i, Len(segs))
    ELSE InsortAt(segs, s, i + 1)

\* list.remove: the first occurrence, if any
RemoveFirst(segs, s) ==
    IF \E i \in 1 .. Len(segs) : segs[i] = s
    THEN SelectSeq(segs, LAMBDA x : x # s)
    ELSE segs

\* MemoryManager._add_to_bucket
add_to_bucket(mm, s) ==
    [mm EXCEPT !.bucket_to_segments[get_size_bucket(SegmentSize(mm, s))] =
                    InsortAt(@, s, 1)]

\* MemoryManager._remove_from_bucket
remove_from_bucket(mm, s) ==
    [mm EXCEPT !.bucket_to_segments[get_size_bucket(SegmentSize(mm, s))] =
                    RemoveFirst(@, s)]

\* MemoryManager.__init__
MemoryManagerInit(ram_start, ram_size) ==
    add_to_bucket(
        [segments |-> (ram_start :>
                          [end_address |-> ram_start + ram_size - 1,
                           stored_symbol |-> "",
                           prev_neighbor |-> NoValue,
                           next_neighbor |-> NoValue]),
         bucket_to_segments |-> [b \in 0 .. 3 |-> <<>>],
         symbol_to_segment |-> EmptyDict],
        ram_start)

\* MemoryManager._find_best_fit_in_bucket: scan the bucket in list order
RECURSIVE BestFitScan(_, _, _, _, _)
BestFitScan(mm, segs, i, required_size, best) ==
    IF i > Len(segs) THEN best
    ELSE IF SegmentSize(mm, segs[i]) >= required_size
            /\ (best = NoValue \/ SegmentSize(mm, segs[i]) < SegmentSize(mm, best))
    THEN IF SegmentSize(mm, segs[i]) = required_size THEN segs[i]
         ELSE BestFitScan(mm, segs, i + 1, required_size, segs[i])
    ELSE BestFitScan(mm, segs, i + 1, required_size, best)

find_best_fit_in_bucket(mm, bucket_id, required_size) ==
    BestFitScan(mm, mm.bucket_to_segments[bucket_id], 1, required_size, NoValue)

\* MemoryManager._find_suitable_segment: the target bucket, then the
\* larger buckets in order
RECURSIVE FindFromBucket(_, _, _)
FindFromBucket(mm, bucket_id, size) ==
    IF bucket_id > 3 THEN NoValue
    ELSE IF find_best_fit_in_bucket(mm, bucket_id, size) # NoValue
    THEN find_best_fit_in_bucket(mm, bucket_id, size)
    ELSE FindFromBucket(mm, bucket_id + 1, size)

find_suitable_segment(mm, size) == FindFromBucket(mm, get_size_bucket(size), size)

\* _split_segment: remainder.next_neighbor.prev_neighbor = remainder
relink_next(mm, remainder) ==
    IF mm.segments[remainder].next_neighbor # NoValue
    THEN [mm EXCEPT
            !.segments[mm.segments[remainder].next_neighbor].prev_neighbor =
                remainder]
    ELSE mm

\* _split_segment with the allocated part one word too long
split_segment_overlapping(mm, s, allocation_size) ==
    IF SegmentSize(mm, s) <= allocation_size THEN mm
    ELSE add_to_bucket(
            relink_next(
                [mm EXCEPT !.segments =
                    (s :> [@[s] EXCEPT
                              !.end_address = s + allocation_size,
                              !.next_neighbor = s + allocation_size])
                    @@ ((s + allocation_size) :>
                          [end_address |-> @[s].end_address,
                           stored_symbol |-> "",
                           prev_neighbor |-> s,
                           next_neighbor |-> @[s].next_neighbor])
                    @@ @],
                s + allocation_size),
            s + allocation_size)

\* MemoryManager._split_segment
split_segment(mm, s, allocation_size) ==
    IF SegmentSize(mm, s) <= allocation_size THEN mm
    ELSE add_to_bucket(
            relink_next(
                [mm EXCEPT !.segments =
                    (s :> [@[s] EXCEPT
                              !.end_address = s + allocation_size - 1,
                              !.next_neighbor = s + allocation_size])
                    @@ ((s + allocation_size) :>
                          [end_address |-> @[s].end_address,
                           stored_symbol |-> "",
                           prev_neighbor |-> s,
                           next_neighbor |-> @[s].next_neighbor])
                    @@ @],
                s + allocation_size),
            s + allocation_size)

\* allocate_memory: mark as allocated
mark_allocated(mm, s, symbol_name) ==
    [mm EXCEPT !.segments[s].stored_symbol = symbol_name,
               !.symbol_to_segment = Put(@, symbol_name, s)]

\* allocate_memory, once a segment is found
allocate_segment(t, symbol_name, size, s) ==
    IF s = NoValue THEN Returning(t, NoValue)
    ELSE Returning(
            [t EXCEPT !.mm = mark_allocated(
                                split_segment(remove_from_bucket(@, s), s, size),
                                s, symbol_name)],
            s)

\* MemoryManager.allocate_memory
allocate_memory(t, symbol_name, size) ==
    allocate_segment(t, symbol_name, size, find_suitable_segment(t.mm, size))

\* MemorySegment.is_free
is_free(mm, s) == mm.segments[s].stored_symbol = ""

\* _coalesce_segment: segment s takes over its next neighbour, which is
\* dropped from the chain
absorb_next(mm, s) ==
    relink_next(
        [mm EXCEPT !.segments =
            [x \in DOMAIN @ \ {@[s].next_neighbor} |->
                IF x = s
                THEN [@[s] EXCEPT
                        !.end_address = mm.segments[mm.segments[s].next_neighbor].end_address,
                        !.next_neighbor = mm.segments[mm.segments[s].next_neighbor].next_neighbor]
                ELSE @[x]]],
        s)

\* _coalesce_segment: the loop over the free previous neighbours; the
\* result is the record with the manager and the segment that is current
RECURSIVE coalesce_previous(_, _)
coalesce_previous(mm, current) ==
    IF mm.segments[current].prev_neighbor # NoValue
       /\ is_free(mm, mm.segments[current].prev_neighbor)
    THEN coalesce_previous(
            absorb_next(
                remove_from_bucket(mm, mm.segments[current].prev_neighbor),
                mm.segments[current].prev_neighbor),
            mm.segments[current].prev_neighbor)
    ELSE [mm |-> mm, current |-> current]

\* _coalesce_segment: the loop over the free next neighbours
RECURSIVE coalesce_next(_, _)
coalesce_next(mm, current) ==
    IF mm.segments[current].next_neighbor # NoValue
       /\ is_free(mm, mm.segments[current].next_neighbor)
    THEN coalesce_next(
            absorb_next(
                remove_from_bucket(mm, mm.segments[current].next_neighbor),
                current),
            current)
    ELSE [mm |-> mm, current |-> current]

\* _coalesce_segment without the loop over the next neighbours
coalesce_segment_previous_only(mm, s) == coalesce_previous(mm, s)

\* MemoryManager._coalesce_segment
coalesce_segment(mm, s) ==
    coalesce_next(coalesce_previous(mm, s).mm, coalesce_previous(mm, s).current)

\* free_memory: the coalesced segment goes back to its bucket
add_coalesced(c) == add_to_bucket(c.mm, c.current)

\* free_memory: mark as free
mark_free(mm, symbol_name) ==
    [mm EXCEPT !.segments[mm.symbol_to_segment[symbol_name]].stored_symbol = "",
               !.symbol_to_segment = Del(@, symbol_name)]

\* MemoryManager.free_memory; t.ok is the truth value returned
free_memory(t, symbol_name) ==
    IF symbol_name \notin DOMAIN t.mm.symbol_to_segment
    THEN [t EXCEPT !.ok = FALSE]
    ELSE [t EXCEPT !.mm =
                add_coalesced(
                    coalesce_segment(mark_free(t.mm, symbol_name),
                                     t.mm.symbol_to_segment[symbol_name])),
                   !.ok = TRUE]

(***************************************************************************)
(* Scope and Symbol.  t.scopes is the chain from the global scope          *)
(* (t.scopes[1]) to the current scope (the last element).                  *)
(***************************************************************************)
REGISTER == "register"
RAM == "ram"
SPILLED == "spilled"
STACK == "stack"

\* Scope.resolve returning None
NoSymbol ==
    [name |-> "", kind |-> "", storage_location |-> "", address |-> NoValue,
     size |-> 0, is_global |-> FALSE, scoped_name |-> "", scope_level |-> 0,
     scope_id |-> 0, frame_offset |-> NoValue]

\* Symbol.is_in_ram
is_in_ram(symbol) == symbol.storage_location \in {RAM, SPILLED}

\* Scope.resolve: this scope, then the parent scopes
RECURSIVE ResolveFrom(_, _, _)
ResolveFrom(chain, i, name) ==
    IF i = 0 THEN NoSymbol
    ELSE IF name \in DOMAIN chain[i].symbols THEN chain[i].symbols[name]
    ELSE ResolveFrom(chain, i - 1, name)

\* SymbolTable.resolve
resolve(t, name) == ResolveFrom(t.scopes, Len(t.scopes), name)

(***************************************************************************)
(* RegisterAllocator                                                       *)
(***************************************************************************)
ALU_REGISTERS == {0, 1}
PARAM_START == 6
LOCAL_START == 31
MAX_REGISTERS == 32
RESERVED_REGISTERS == {0, 1, 2, 3, 4, 5}

\* RegisterAllocator.__init__
RegisterAllocatorInit ==
    [register_to_symbol |-> EmptyDict,
     symbol_to_register |-> EmptyDict,
     register_usage_count |-> EmptyDict,
     spilled_symbols |-> EmptyDict,
     temporary_registers |-> {},
     temp_register_counter |-> 0,
     next_local_register |-> 31,
     next_param_register |-> 2,
     register_availability_stack |->
        <<(PARAM_START .. MAX_REGISTERS - 1) \ RESERVED_REGISTERS>>,
     register_scope_depth |-> EmptyDict,
     register_live_uses |-> EmptyDict,
     live_registers |-> {}]

\* the assembly generator's callback: one more emitted instruction
emit(t, opcode, operands) ==
    [t EXCEPT !.instructions = Append(@, Instruction(opcode, operands))]

\* RegisterAllocator.get_available_registers
get_available_registers(t) ==
    t.ra.register_availability_stack[Len(t.ra.register_availability_stack)]

SetAvailable(t, available) ==
    [t EXCEPT !.ra.register_availability_stack =
        [i \in 1 .. Len(@) |-> IF i = Len(@) THEN available ELSE @[i]]]

\* RegisterAllocator.mark_register_used
mark_register_used(t, register) ==
    SetAvailable(t, get_available_registers(t) \ {register})

\* RegisterAllocator.mark_register_available
mark_register_available(t, register) ==
    SetAvailable(t, get_available_registers(t) \cup {register})

\* RegisterAllocator.is_register_live
is_register_live(t, register) == register \in t.ra.live_registers

\* RegisterAllocator.mark_register_live; dependent_symbol "" for None
mark_register_live(t, register, dependent_symbol) ==
    [t EXCEPT !.ra.live_registers = @ \cup {register},
              !.ra.register_live_uses =
                  IF dependent_symbol # ""
                  THEN Put(@, register, Get(@, register, {}) \cup {dependent_symbol})
                  ELSE @]

\* RegisterAllocator.mark_register_consumed; by_symbol "" for None
mark_register_consumed(t, register, by_symbol) ==
    IF by_symbol # "" /\ register \in DOMAIN t.ra.register_live_uses
    THEN IF t.ra.register_live_uses[register] \ {by_symbol} = {}
         THEN [t EXCEPT !.ra.live_registers = @ \ {register},
                        !.ra.register_live_uses = Del(@, register)]
         ELSE [t EXCEPT !.ra.register_live_uses[register] = @ \ {by_symbol}]
    ELSE [t EXCEPT !.ra.live_registers = @ \ {register},
                   !.ra.register_live_uses = Del(@, register)]

\* _free_register_internal: the deletions under delete_symbol
delete_symbol_maps(t, register, delete_symbol) ==
    IF register \in DOMAIN t.ra.register_to_symbol /\ delete_symbol
    THEN [t EXCEPT !.ra.register_to_symbol = Del(@, register),
                   !.ra.symbol_to_register =
                        Del(@, t.ra.register_to_symbol[register]),
                   !.ra.register_usage_count = Del(@, register)]
    ELSE t

\* register_scope_depth[reg] = len(register_availability_stack) - 1
track_scope_depth(t, register) ==
    [t EXCEPT !.ra.register_scope_depth =
        Put(@, register, Len(t.ra.register_availability_stack) - 1)]

untrack_scope_depth(t, register) ==
    [t EXCEPT !.ra.register_scope_depth = Del(@, register)]

\* RegisterAllocator._free_register_internal
free_register_internal(t, register, delete_symbol) ==
    untrack_scope_depth(
        mark_register_consumed(
            mark_register_available(
                delete_symbol_maps(t, register, delete_symbol), register),
            register, ""),
        register)

\* RegisterAllocator.free_register
free_register(t, register) == free_register_internal(t, register, FALSE)

\* free_temporary_register: move next_local_register back
reset_next_local(t, register) ==
    IF register > t.ra.next_local_register
    THEN [t EXCEPT !.ra.next_local_register = register]
    ELSE t

\* RegisterAllocator.free_temporary_register
free_temporary_register(t, register) ==
    IF register \in t.ra.temporary_registers
    THEN reset_next_local(
            free_register_internal(
                [mark_register_consumed(t, register, "")
                    EXCEPT !.ra.temporary_registers = @ \ {register}],
                register, TRUE),
            register)
    ELSE t

\* RegisterAllocator._assign_register_to_symbol
assign_register_to_symbol(t, register, symbol_name) ==
    [t EXCEPT !.ra.register_to_symbol = Put(@, register, symbol_name),
              !.ra.symbol_to_register = Put(@, symbol_name, register),
              !.ra.register_usage_count = Put(@, register, 0)]

\* the common tail of every allocation: assign, mark used, track the depth
take_register(t, register, symbol_name) ==
    Returning(
        track_scope_depth(
            mark_register_used(
                assign_register_to_symbol(t, register, symbol_name), register),
            register),
        register)

\* spill_symbol, once RAM is allocated (t.ret is the RAM address)
spill_store(t, symbol_name, reg) ==
    IF t.ret = NoValue THEN [t EXCEPT !.ok = FALSE]
    ELSE [free_register(
            [emit(t, "LOAD", <<Reg(reg), Imm(t.ret)>>) EXCEPT
                !.ra.spilled_symbols = Put(@, symbol_name, t.ret),
                !.ra.temporary_registers = @ \ {reg}],
            reg)
          EXCEPT !.ok = TRUE]

\* RegisterAllocator.spill_symbol
spill_symbol(t, symbol_name) ==
    IF symbol_name \notin DOMAIN t.ra.symbol_to_register
    THEN [t EXCEPT !.ok = FALSE]
    ELSE spill_store(allocate_memory(t, "spill_" \o symbol_name, 1),
                     symbol_name, t.ra.symbol_to_register[symbol_name])

\* _allocate_parameter_register without the test of RESERVED_REGISTERS
RECURSIVE allocate_parameter_register(_)
allocate_parameter_register_unreserved(t) ==
    IF t.ra.next_param_register >= LOCAL_START THEN Returning(t, NoValue)
    ELSE IF t.ra.next_param_register \notin DOMAIN t.ra.register_to_symbol
    THEN Returning([t EXCEPT !.ra.next_param_register = @ + 1],
                   t.ra.next_param_register)
    ELSE allocate_parameter_register([t EXCEPT !.ra.next_param_register = @ + 1])

\* RegisterAllocator._allocate_parameter_register
allocate_parameter_register(t) ==
    IF t.ra.next_param_register >= LOCAL_START THEN Returning(t, NoValue)
    ELSE IF t.ra.next_param_register \notin DOMAIN t.ra.register_to_symbol
            /\ t.ra.next_param_register \notin RESERVED_REGISTERS
    THEN Returning([t EXCEPT !.ra.next_param_register = @ + 1],
                   t.ra.next_param_register)
    ELSE allocate_parameter_register([t EXCEPT !.ra.next_param_register = @ + 1])

\* RegisterAllocator._allocate_local_register
RECURSIVE allocate_local_register(_)
allocate_local_register(t) ==
    IF t.ra.next_local_register < PARAM_START THEN Returning(t, NoValue)
    ELSE IF t.ra.next_local_register \notin DOMAIN t.ra.register_to_symbol
            /\ t.ra.next_local_register \notin RESERVED_REGISTERS
            /\ t.ra.next_local_register \in get_available_registers(t)
            /\ ~is_register_live(t, t.ra.next_local_register)
    THEN Returning([t EXCEPT !.ra.next_local_register = @ - 1],
                   t.ra.next_local_register)
    ELSE allocate_local_register([t EXCEPT !.ra.next_local_register = @ - 1])

\* range(PARAM_START, LOCAL_START) and range(LOCAL_START, PARAM_START, -1)
register_pool(is_parameter) ==
    IF is_parameter
    THEN [i \in 1 .. (LOCAL_START - PARAM_START) |-> PARAM_START + i - 1]
    ELSE [i \in 1 .. (LOCAL_START - PARAM_START) |-> LOCAL_START - i + 1]

\* one pass over the pool for the least used register that holds a symbol;
\* min_usage NoValue stands for float('inf')
RECURSIVE LruScan(_, _, _, _, _, _)
LruScan(t, pool, i, allow_live, lru_reg, min_usage) ==
    IF i > Len(pool) THEN lru_reg
    ELSE IF pool[i] \in DOMAIN t.ra.register_to_symbol
            /\ pool[i] \notin ALU_REGISTERS
            /\ (allow_live \/ ~is_register_live(t, pool[i]))
            /\ (min_usage = NoValue
                \/ Get(t.ra.register_usage_count, pool[i], 0) < min_usage)
    THEN LruScan(t, pool, i + 1, allow_live, pool[i],
                 Get(t.ra.register_usage_count, pool[i], 0))
    ELSE LruScan(t, pool, i + 1, allow_live, lru_reg, min_usage)

\* _spill_and_allocate: the second pass allows live registers
second_pass(t, pool, lru_reg) ==
    IF lru_reg # NoValue THEN lru_reg
    ELSE LruScan(t, pool, 1, TRUE, NoValue, NoValue)

\* _spill_and_allocate, after spill_symbol
assign_after_spill(t, lru_reg, symbol_name) ==
    IF ~t.ok THEN Returning(t, NoValue)
    ELSE take_register(t, lru_reg, symbol_name)

\* _spill_and_allocate, once the register to spill is chosen
spill_and_assign(t, symbol_name, lru_reg) ==
    IF lru_reg = NoValue THEN Returning(t, NoValue)
    ELSE assign_after_spill(spill_symbol(t, t.ra.register_to_symbol[lru_reg]),
                            lru_reg, symbol_name)

\* RegisterAllocator._spill_and_allocate
spill_and_allocate(t, symbol_name, is_parameter) ==
    spill_and_assign(t, symbol_name,
        second_pass(t, register_pool(is_parameter),
            LruScan(t, register_pool(is_parameter), 1, FALSE, NoValue, NoValue)))

\* allocate_register_for_symbol, after the attempt to allocate (t.ret)
assign_or_spill(t, symbol_name, is_parameter) ==
    IF t.ret # NoValue THEN take_register(t, t.ret, symbol_name)
    ELSE spill_and_allocate(t, symbol_name, is_parameter)

\* RegisterAllocator.allocate_register_for_symbol
allocate_register_for_symbol(t, symbol_name, is_parameter) ==
    IF symbol_name \in DOMAIN t.ra.symbol_to_register
    THEN Returning(t, t.ra.symbol_to_register[symbol_name])
    ELSE assign_or_spill(IF is_parameter THEN allocate_parameter_register(t)
                         ELSE allocate_local_register(t),
                         symbol_name, is_parameter)

\* f"__temp_{self.temp_register_counter}"
temp_name(t) == "__temp_" \o ToString(t.ra.temp_register_counter)

\* a register becomes the next temporary
take_temporary(t, reg) ==
    take_register([t EXCEPT !.ra.temp_register_counter = @ + 1,
                            !.ra.temporary_registers = @ \cup {reg}],
                  reg, temp_name(t))

\* _spill_lru_and_allocate, after spill_symbol
temporary_after_spill(t, lru_reg) ==
    IF ~t.ok THEN Returning(t, NoValue) ELSE take_temporary(t, lru_reg)

\* _spill_lru_and_allocate, once the register to spill is chosen
spill_lru_and_assign(t, lru_reg) ==
    IF lru_reg = NoValue THEN Returning(t, NoValue)
    ELSE temporary_after_spill(
            spill_symbol(t, t.ra.register_to_symbol[lru_reg]), lru_reg)

\* _spill_lru_and_allocate without the test of is_register_live
spill_lru_and_allocate_any(t) ==
    spill_lru_and_assign(t,
        LruScan(t, register_pool(FALSE), 1, TRUE, NoValue, NoValue))

\* RegisterAllocator._spill_lru_and_allocate
spill_lru_and_allocate(t) ==
    spill_lru_and_assign(t,
        LruScan(t, register_pool(FALSE), 1, FALSE, NoValue, NoValue))

\* max(candidate_registers)
MaxOf(S) == CHOOSE x \in S : \A y \in S : y <= x

\* allocate_temporary_register, once the candidates are known
temporary_from(t, candidate_registers) ==
    IF candidate_registers # {}
    THEN take_temporary(t, MaxOf(candidate_registers))
    ELSE spill_lru_and_allocate(t)

\* RegisterAllocator.allocate_temporary_register
allocate_temporary_register(t) ==
    temporary_from(t, (get_available_registers(t) \ t.ra.live_registers)
                        \ DOMAIN t.ra.register_to_symbol)

\* access_symbol: the reload, after allocate_register_for_symbol (t.ret)
reload_symbol(t, symbol_name, lookup_name, ram_addr) ==
    IF t.ret = NoValue
    THEN Failing(t, "Cannot allocate register for spilled symbol " \o symbol_name)
    ELSE Returning(
            [mark_register_live(
                take_register(
                    emit(t, "READ", <<Imm(ram_addr), Reg(t.ret)>>),
                    t.ret, lookup_name),
                t.ret, lookup_name)
             EXCEPT !.ra.spilled_symbols = Del(@, lookup_name)],
            t.ret)

\* access_symbol, once the symbol is resolved
access_resolved(t, symbol_name, symbol, lookup_name) ==
    IF lookup_name \in DOMAIN t.ra.symbol_to_register
    THEN Returning(
            [t EXCEPT !.ra.register_usage_count =
                Put(@, t.ra.symbol_to_register[lookup_name],
                    Get(@, t.ra.symbol_to_register[lookup_name], 0) + 1)],
            t.ra.symbol_to_register[lookup_name])
    ELSE IF lookup_name \in DOMAIN t.ra.spilled_symbols
            \/ (symbol # NoSymbol /\ is_in_ram(symbol))
    THEN reload_symbol(allocate_register_for_symbol(t, lookup_name, FALSE),
                       symbol_name, lookup_name,
                       IF symbol # NoSymbol /\ is_in_ram(symbol)
                       THEN symbol.address
                       ELSE t.ra.spilled_symbols[lookup_name])
    ELSE Failing(t, "Symbol " \o symbol_name
                    \o " not found in registers, spilled memory, or RAM")

\* symbol.scoped_name if symbol and symbol.scoped_name else symbol_name
lookup_name_of(symbol, symbol_name) ==
    IF symbol # NoSymbol /\ symbol.scoped_name # "" THEN symbol.scoped_name
    ELSE symbol_name

access_named(t, symbol_name, symbol) ==
    access_resolved(t, symbol_name, symbol, lookup_name_of(symbol, symbol_name))

\* RegisterAllocator.access_symbol
access_symbol(t, symbol_name) == access_named(t, symbol_name, resolve(t, symbol_name))

\* RegisterAllocator.enter_register_scope
enter_register_scope(t) ==
    [t EXCEPT !.ra.register_availability_stack =
        Append(@, get_available_registers(t))]

\* exit_register_scope: free the registers of this depth that are not live
RECURSIVE free_scope_registers(_, _)
free_scope_registers(t, registers_to_free) ==
    IF registers_to_free = {} THEN t
    ELSE free_scope_registers(
            IF is_register_live(t, MaxOf(registers_to_free)) THEN t
            ELSE free_register_internal(
                    [t EXCEPT !.ra.temporary_registers =
                                    @ \ {MaxOf(registers_to_free)}],
                    MaxOf(registers_to_free), TRUE),
            registers_to_free \ {MaxOf(registers_to_free)})

\* RegisterAllocator.exit_register_scope
exit_register_scope(t) ==
    IF Len(t.ra.register_availability_stack) <= 1 THEN t
    ELSE [free_scope_registers(t,
            {reg \in DOMAIN t.ra.register_scope_depth :
                t.ra.register_scope_depth[reg] =
                    Len(t.ra.register_availability_stack) - 1})
          EXCEPT !.ra.register_availability_stack = SubSeq(@, 1, Len(@) - 1)]

(***************************************************************************)
(* SymbolTable                                                             *)
(***************************************************************************)
VARIABLE_KIND == "variable"
FUNCTION_KIND == "function"
PARAMETER_KIND == "parameter"
ARRAY_KIND == "array"

\* Scope.__init__
Scope(scope_id, level) ==
    [scope_id |-> scope_id, level |-> level, symbols |-> EmptyDict]

\* SymbolTable.__init__
SymbolTableInit(ram_start, ram_size) ==
    [mm |-> MemoryManagerInit(ram_start, ram_size),
     ra |-> RegisterAllocatorInit,
     scopes |-> <<Scope(0, 0)>>,
     next_scope_id |-> 1,
     expression_scope_stack |-> <<>>,
     instructions |-> <<>>,
     ret |-> NoValue,
     ok |-> TRUE,
     exc |-> NoExc]

current_scope(t) == t.scopes[Len(t.scopes)]

\* SymbolTable.enter_scope
enter_scope(t) ==
    [t EXCEPT !.scopes = Append(@, Scope(t.next_scope_id, current_scope(t).level + 1)),
              !.next_scope_id = @ + 1]

\* Scope.exit_scope: free the registers filed under the names of this scope
RECURSIVE free_scope_symbols(_, _)
free_scope_symbols(t, names) ==
    IF names = {} THEN t
    ELSE free_scope_symbols(
            IF (CHOOSE n \in names : TRUE) \in DOMAIN t.ra.symbol_to_register
               /\ ~current_scope(t).symbols[CHOOSE n \in names : TRUE].is_global
            THEN free_register(t,
                    t.ra.symbol_to_register[CHOOSE n \in names : TRUE])
            ELSE t,
            names \ {CHOOSE n \in names : TRUE})

\* SymbolTable.exit_scope
exit_scope(t) ==
    IF Len(t.scopes) > 1
    THEN [free_scope_symbols(t, DOMAIN current_scope(t).symbols)
            EXCEPT !.scopes = SubSeq(@, 1, Len(@) - 1)]
    ELSE Failing(t, "Cannot exit global scope")

\* SymbolTable._create_scoped_name
create_scoped_name(t, name) ==
    name \o "$scope" \o ToString(current_scope(t).scope_id)
         \o "$level" \o ToString(current_scope(t).level)

\* Symbol, with the fields the compiler reads
Symbol(t, name, kind, storage_location, address, size, frame_offset) ==
    [name |-> name,
     kind |-> kind,
     storage_location |-> storage_location,
     address |-> address,
     size |-> size,
     is_global |-> Len(t.scopes) = 1,
     scoped_name |-> create_scoped_name(t, name),
     scope_level |-> current_scope(t).level,
     scope_id |-> current_scope(t).scope_id,
     frame_offset |-> frame_offset]

\* Scope.define
define(t, symbol) ==
    IF symbol.name \in DOMAIN current_scope(t).symbols
    THEN Failing(t, "Symbol '" \o symbol.name \o "' already defined in this scope")
    ELSE [t EXCEPT !.scopes[Len(t.scopes)].symbols = Put(@, symbol.name, symbol)]

\* define_variable: a variable kept in RAM, after allocate_memory (t.ret)
define_in_ram(t, name, kind, size, msg) ==
    IF t.ret = NoValue THEN Failing(t, msg \o name)
    ELSE define(t, Symbol(t, name, kind, RAM, t.ret, size, NoValue))

\* define_variable: a local, after allocate_register_for_symbol (t.ret)
define_local(t, name) ==
    IF t.ret # NoValue
    THEN define(t, Symbol(t, name, VARIABLE_KIND, REGISTER, t.ret, 1, NoValue))
    ELSE define_in_ram(allocate_memory(t, create_scoped_name(t, name), 1),
                       name, VARIABLE_KIND, 1,
                       "Cannot allocate storage for variable ")

\* SymbolTable.define_variable; array_size 0 for a type that is no array
define_variable(t, name, array_size) ==
    IF array_size > 0
    THEN define_in_ram(allocate_memory(t, create_scoped_name(t, name), array_size),
                       name, ARRAY_KIND, array_size,
                       "Cannot allocate RAM for array ")
    ELSE IF Len(t.scopes) = 1
    THEN define_in_ram(allocate_memory(t, create_scoped_name(t, name), 1),
                       name, VARIABLE_KIND, 1,
                       "Cannot allocate RAM for global variable ")
    ELSE define_local(
            allocate_register_for_symbol(t, create_scoped_name(t, name), FALSE),
            name)

\* SymbolTable.define_function
define_function(t, name) ==
    IF name \in DOMAIN t.scopes[1].symbols
    THEN Failing(t, "Symbol '" \o name \o "' already defined in this scope")
    ELSE [t EXCEPT !.scopes[1].symbols =
            Put(@, name,
                [name |-> name, kind |-> FUNCTION_KIND, storage_location |-> RAM,
                 address |-> NoValue, size |-> 1, is_global |-> TRUE,
                 scoped_name |-> name, scope_level |-> 0, scope_id |-> 0,
                 frame_offset |-> NoValue])]

\* define_parameter, after allocate_register_for_symbol (t.ret)
define_parameter_in(t, name) ==
    IF t.ret = NoValue
    THEN Failing(t, "Cannot allocate register for parameter " \o name)
    ELSE define(t, [Symbol(t, name, PARAMETER_KIND, REGISTER, t.ret, 1, NoValue)
                        EXCEPT !.is_global = FALSE])

\* SymbolTable.define_parameter
define_parameter(t, name) ==
    define_parameter_in(
        allocate_register_for_symbol(t, create_scoped_name(t, name), TRUE), name)

\* SymbolTable.define_variable_on_stack
define_variable_on_stack(t, name, frame_offset) ==
    define(t, [Symbol(t, name, VARIABLE_KIND, STACK, NoValue, 1, frame_offset)
                    EXCEPT !.is_global = FALSE])

\* SymbolTable.define_parameter_on_stack
define_parameter_on_stack(t, name, frame_offset) ==
    define(t, [Symbol(t, name, PARAMETER_KIND, STACK, NoValue, 1, frame_offset)
                    EXCEPT !.is_global = FALSE])

\* expression_scope_stack[-1].add(reg), if there is an expression scope
track_in_expression_scope(t, reg) ==
    IF t.expression_scope_stack # <<>>
    THEN [t EXCEPT !.expression_scope_stack[Len(t.expression_scope_stack)] =
                        @ \cup {reg}]
    ELSE t

\* allocate_temporary, after allocate_temporary_register (t.ret)
temporary_tracked(t, msg) ==
    IF t.ret = NoValue THEN Failing(t, msg)
    ELSE track_in_expression_scope(t, t.ret)

\* SymbolTable.allocate_temporary
allocate_temporary(t) ==
    temporary_tracked(allocate_temporary_register(t),
                      "Cannot allocate temporary register")

\* SymbolTable.enter_expression_scope
enter_expression_scope(t) ==
    enter_register_scope([t EXCEPT !.expression_scope_stack = Append(@, {})])

\* exit_expression_scope: free the temporaries of the scope
RECURSIVE free_temporary_set(_, _)
free_temporary_set(t, temp_registers) ==
    IF temp_registers = {} THEN t
    ELSE free_temporary_set(
            free_temporary_register(t, MaxOf(temp_registers)),
            temp_registers \ {MaxOf(temp_registers)})

\* SymbolTable.exit_expression_scope
exit_expression_scope(t) ==
    IF t.expression_scope_stack = <<>> THEN t
    ELSE exit_register_scope(
            free_temporary_set(
                [t EXCEPT !.expression_scope_stack = SubSeq(@, 1, Len(@) - 1)],
                t.expression_scope_stack[Len(t.expression_scope_stack)]))

\* RegisterAllocator.free_temporaries, given register numbers
RECURSIVE free_temporaries(_, _)
free_temporaries(t, regs) ==
    IF regs = <<>> THEN t
    ELSE free_temporaries(free_temporary_register(t, Head(regs)), Tail(regs))

\* save_alu_result, after allocate_temporary_register (t.ret)
alu_result_saved(t, pin_live) ==
    IF t.ret = NoValue
    THEN Failing(t, "save_alu_result: no register available")
    ELSE IF pin_live
    THEN mark_register_live(
            emit(track_in_expression_scope(t, t.ret), "MVR",
                 <<Reg(0), Reg(t.ret)>>),
            t.ret, "")
    ELSE emit(track_in_expression_scope(t, t.ret), "MVR",
              <<Reg(0), Reg(t.ret)>>)

\* RegisterAllocator.save_alu_result
save_alu_result(t, pin_live) ==
    alu_result_saved(allocate_temporary_register(t), pin_live)

RECURSIVE mark_registers_live(_, _)
mark_registers_live(t, live_regs) ==
    IF live_regs = <<>> THEN t
    ELSE mark_registers_live(mark_register_live(t, Head(live_regs), ""),
                             Tail(live_regs))

RECURSIVE mark_registers_consumed(_, _)
mark_registers_consumed(t, live_regs) ==
    IF live_regs = <<>> THEN t
    ELSE mark_registers_consumed(
            mark_register_consumed(t, Head(live_regs), ""), Tail(live_regs))

\* allocate_protected, after the allocation and the unpinning (t.ret)
protected_tracked(t) ==
    IF t.ret = NoValue
    THEN Failing(t, "allocate_protected: no register available after spill")
    ELSE track_in_expression_scope(t, t.ret)

\* RegisterAllocator.allocate_protected
allocate_protected(t, live_regs) ==
    protected_tracked(
        mark_registers_consumed(
            allocate_temporary_register(mark_registers_live(t, live_regs)),
            live_regs))

(***************************************************************************)
(* AssemblyGenerator (src/compiler/assembly_generator.py).  A generator    *)
(* record g is a compiler record with the generator's own fields           *)
(* label_counter, current_function, current_local_frame_depth,             *)
(* break_labels and continue_labels, and with the symbol table's           *)
(* next_global_address, which no method ever advances.  An                 *)
(* emitted operand is written as the loader reads its text: Operand(n) is  *)
(* printed as  n  (Reg), Operand(n, True) as  i:n  (Imm), a label as       *)
(* itself (Name).  A visit of an expression leaves its register in g.ret.  *)
(***************************************************************************)
STATIC_START == 4096
HEAP_START == 6144
STACK_BASE == 28672
STACK_TOP == 32767
STACK_POINTER_REG == 3
FRAME_POINTER_REG == 4
EPILOGUE_SAVE_REG == 5

\* AssemblyGenerator.__init__
AssemblyGeneratorInit(ram_start, ram_size) ==
    SymbolTableInit(ram_start, ram_size)
        @@ [label_counter |-> 0, current_function |-> None,
            current_local_frame_depth |-> 0,
            next_global_address |-> ram_start,
            break_labels |-> <<>>, continue_labels |-> <<>>]

\* one call after another: K runs on the generator the call g has left,
\* unless that call raised
Then(g, K(_)) ==
    CHOOSE r \in {IF x.exc # NoExc THEN x ELSE K(x) : x \in {g}} : TRUE

\* a try ... finally: K runs whether or not g raised
Finally(g, K(_)) == CHOOSE r \in {K(x) : x \in {g}} : TRUE

\* Instruction(None, [], label=label)
LabelLine(label) == [opcode |-> None, operands |-> <<>>, label |-> label]

\* several calls of AssemblyGenerator.emit in a row
emit_all(g, emitted) == [g EXCEPT !.instructions = @ \o emitted]

\* AssemblyGenerator._safe_free
safe_free(g, reg) ==
    IF reg = NoValue THEN g
    ELSE IF reg \notin RESERVED_REGISTERS THEN free_temporary_register(g, reg)
    ELSE g

\* AssemblyGenerator._emit_sp_decrement
emit_sp_decrement(g, n) ==
    emit_all(g, << Instruction("SUB", <<Reg(STACK_POINTER_REG), Imm(n)>>),
                   Instruction("MVR", <<Reg(0), Reg(1)>>),
                   Instruction("MVR", <<Reg(1), Reg(STACK_POINTER_REG)>>) >>)

\* AssemblyGenerator._emit_sp_increment
emit_sp_increment(g, n) ==
    emit_all(g, << Instruction("ADD", <<Reg(STACK_POINTER_REG), Imm(n)>>),
                   Instruction("MVR", <<Reg(0), Reg(1)>>),
                   Instruction("MVR", <<Reg(1), Reg(STACK_POINTER_REG)>>) >>)

\* AssemblyGenerator._rescue_r0
rescue_r0(g, reg) ==
    IF reg # 0 THEN Returning(g, reg) ELSE save_alu_result(g, FALSE)

\* the label generate_label returns, k calls from now
label_name(g, prefix, k) == prefix \o ToString(g.label_counter + k)

\* AssemblyGenerator.generate_label: the counter moves on
generate_label(g) == [g EXCEPT !.label_counter = @ + 1]

\* AssemblyGenerator.emit_label
emit_label(g, label) == emit_all(g, <<LabelLine(label)>>)

\* AssemblyGenerator.emit_immediate
emit_immediate(g, opcode, immediate_value, dest_register) ==
    emit(g, opcode, <<Imm(immediate_value), Reg(dest_register)>>)

\* AssemblyGenerator._emit_push
emit_push(g, source_reg) ==
    IF source_reg = 0
    THEN emit_all(g,
            << Instruction("MVR", <<Reg(0), Reg(1)>>),
               Instruction("SUB", <<Reg(STACK_POINTER_REG), Imm(1)>>),
               Instruction("MVR", <<Reg(0), Reg(STACK_POINTER_REG)>>),
               Instruction("LOAD", <<Reg(1), Reg(STACK_POINTER_REG)>>) >>)
    ELSE emit(emit_sp_decrement(g, 1), "LOAD",
              <<Reg(source_reg), Reg(STACK_POINTER_REG)>>)

\* AssemblyGenerator._emit_pop
emit_pop(g, dest_reg) ==
    emit_sp_increment(
        emit(g, "READ", <<Reg(STACK_POINTER_REG), Reg(dest_reg)>>), 1)

\* AssemblyGenerator._emit_fp_address
emit_fp_address(g, frame_offset) ==
    Then(allocate_temporary(g), LAMBDA x :
        emit_all(x,
            << IF frame_offset >= 0
               THEN Instruction("ADD", <<Reg(FRAME_POINTER_REG), Imm(frame_offset)>>)
               ELSE Instruction("SUB", <<Reg(FRAME_POINTER_REG), Imm(-frame_offset)>>),
               Instruction("MVR", <<Reg(0), Reg(x.ret)>>) >>))

\* AssemblyGenerator._emit_fp_load
emit_fp_load(g, frame_offset) ==
    Then(emit_fp_address(g, frame_offset), LAMBDA x :
    Then(allocate_temporary(free_temporary_register(x, x.ret)), LAMBDA y :
        emit_all(y, << Instruction("MVR", <<Reg(0), Reg(y.ret)>>),
                       Instruction("READ", <<Reg(y.ret), Reg(y.ret)>>) >>)))

\* AssemblyGenerator._emit_fp_store
emit_fp_store(g, value_reg, frame_offset) ==
    Then(allocate_temporary(g), LAMBDA s :
    Then(emit_fp_address(
            mark_register_live(
                emit(s, "MVR", <<Reg(value_reg), Reg(s.ret)>>), s.ret, ""),
            frame_offset), LAMBDA a :
        Returning(
            free_temporary_register(
                emit(mark_register_consumed(a, s.ret, ""), "LOAD",
                     <<Reg(s.ret), Reg(a.ret)>>),
                a.ret),
            s.ret)))

\* AssemblyGenerator._check_static_bounds
check_static_bounds(g, size, var_name) ==
    IF g.next_global_address + size > HEAP_START
    THEN Failing(g, "Static memory overflow: Variable '" \o var_name \o "'")
    ELSE g

\* AssemblyGenerator._emit_function_epilogue
emit_function_epilogue(g) ==
    emit_all(
        emit_pop(
            emit_pop(
                emit_all(g,
                    << Instruction("MVR", <<Reg(0), Reg(EPILOGUE_SAVE_REG)>>),
                       Instruction("MVR", <<Reg(FRAME_POINTER_REG),
                                            Reg(STACK_POINTER_REG)>>) >>),
                FRAME_POINTER_REG),
            2),
        << Instruction("MVR", <<Reg(EPILOGUE_SAVE_REG), Reg(0)>>),
           Instruction("JMP", <<Reg(2)>>) >>)

(***************************************************************************)
(* The syntax tree (src/compiler/ast_nodes.py).  A ReturnStatement without *)
(* a value has no value field.                                             *)
(***************************************************************************)
IntegerLiteral(value) == [type |-> "IntegerLiteral", value |-> value]
Identifier(name) == [type |-> "Identifier", name |-> name]
BinaryExpression(left, operator, right) ==
    [type |-> "BinaryExpression", left |-> left, operator |-> operator,
     right |-> right]
FunctionCall(function, arguments) ==
    [type |-> "FunctionCall", function |-> function, arguments |-> arguments]
GPUFunctionCall(function_name, arguments) ==
    [type |-> "GPUFunctionCall", function_name |-> function_name,
     arguments |-> arguments]
MemoryFunctionCall(function_name, arguments) ==
    [type |-> "MemoryFunctionCall", function_name |-> function_name,
     arguments |-> arguments]
ExpressionStatement(expression) ==
    [type |-> "ExpressionStatement", expression |-> expression]
ReturnStatement(value) == [type |-> "ReturnStatement", value |-> value]
\* operator is the value of the UnaryOperator: "-", "!", "~", "*", "not"
UnaryExpression(operator, operand) ==
    [type |-> "UnaryExpression", operator |-> operator, operand |-> operand]
Block(statements) == [type |-> "Block", statements |-> statements]
\* an IfStatement without an else has no else_branch field
IfStatement(condition, then_branch) ==
    [type |-> "IfStatement", condition |-> condition, then_branch |-> then_branch]
WhileStatement(condition, body) ==
    [type |-> "WhileStatement", condition |-> condition, body |-> body]
\* for (; condition; ) body: no initializer and no increment field
ForStatement(condition, body) ==
    [type |-> "ForStatement", condition |-> condition, body |-> body]
BreakStatement == [type |-> "BreakStatement"]
ContinueStatement == [type |-> "ContinueStatement"]
\* var name: int;  or, with array_size > 0,  var name: int[array_size];
VariableDeclaration(name, array_size) ==
    [type |-> "VariableDeclaration", name |-> name, array_size |-> array_size]
\* var name: int = initializer;
InitializedDeclaration(name, initializer) ==
    [type |-> "VariableDeclaration", name |-> name, array_size |-> 0,
     initializer |-> initializer]
FunctionDeclaration(name, parameters, body) ==
    [type |-> "FunctionDeclaration", name |-> name,
     parameters |-> parameters, body |-> body]
Program(declarations) == [type |-> "Program", declarations |-> declarations]

\* AssemblyGenerator._BINARY_OP_MAP
BINARY_OP_MAP ==
    [op \in {"+", "-", "*", "/", "and", "or", "xor", "<<", ">>", "&", "|", "^"} |->
        CASE op = "+" -> "ADD"
          [] op = "-" -> "SUB"
          [] op = "*" -> "MULT"
          [] op = "/" -> "DIV"
          [] op \in {"and", "&"} -> "AND"
          [] op \in {"or", "|"} -> "OR"
          [] op \in {"xor", "^"} -> "XOR"
          [] op = "<<" -> "SHL"
          [] op = ">>" -> "SHR"]

ComparisonOperators == {"==", "!=", "<", ">", "<=", ">="}

\* the node's accept(self): the visit method of its class
RECURSIVE visit(_, _)

\* AssemblyGenerator.visit_integer_literal
visit_integer_literal(g, node) ==
    Then(allocate_temporary(g), LAMBDA x :
        emit_immediate(x, "MVR", node.value, x.ret))

\* visit_identifier, once the name is resolved
identifier_resolved(g, node, symbol) ==
    IF symbol = NoSymbol
    THEN Failing(g, "Undefined variable: " \o node.name)
    ELSE IF symbol.kind = FUNCTION_KIND
    THEN Then(allocate_temporary(g), LAMBDA x :
            emit(x, "MVR", <<ImmLabel("func_" \o node.name), Reg(x.ret)>>))
    ELSE IF symbol.storage_location = STACK
    THEN emit_fp_load(g, symbol.frame_offset)
    ELSE IF symbol.storage_location = RAM
    THEN Then(allocate_temporary(g), LAMBDA x :
            emit(x, "READ", <<Imm(symbol.address), Reg(x.ret)>>))
    ELSE access_symbol(g, node.name)

\* AssemblyGenerator.visit_identifier
visit_identifier(g, node) == identifier_resolved(g, node, resolve(g, node.name))

\* the scratch register holding the sign bit mask, and the jump on it
sign_bit_test(g, result_reg, jump, true_label) ==
    Then(allocate_protected(g, <<result_reg>>), LAMBDA x :
        Returning(
            emit_all(x, << Instruction("MVR", <<Imm(32768), Reg(x.ret)>>),
                           Instruction("AND", <<Reg(0), Reg(x.ret)>>),
                           Instruction(jump, <<Name(true_label), Reg(0)>>) >>),
            x.ret))

\* AssemblyGenerator._emit_comparison_result
emit_comparison_result(g, operator, result_reg, true_label) ==
    CASE operator = "==" -> emit(g, "JZ", <<Name(true_label), Reg(0)>>)
      [] operator = "!=" -> emit(g, "JNZ", <<Name(true_label), Reg(0)>>)
      [] operator = "<" ->
            Then(sign_bit_test(g, result_reg, "JNZ", true_label), LAMBDA x :
                free_temporaries(x, <<x.ret>>))
      [] operator = ">" ->
            Then(sign_bit_test(
                    emit(generate_label(g), "JZ",
                         <<Name(label_name(g, "nt_grtr", 0)), Reg(0)>>),
                    result_reg, "JZ", true_label), LAMBDA x :
                free_temporaries(emit_label(x, label_name(g, "nt_grtr", 0)),
                                 <<x.ret>>))
      [] operator = "<=" ->
            Then(sign_bit_test(emit(g, "JZ", <<Name(true_label), Reg(0)>>),
                               result_reg, "JNZ", true_label), LAMBDA x :
                free_temporaries(x, <<x.ret>>))
      [] operator = ">=" ->
            Then(sign_bit_test(emit(g, "JZ", <<Name(true_label), Reg(0)>>),
                               result_reg, "JZ", true_label), LAMBDA x :
                free_temporaries(x, <<x.ret>>))
      [] OTHER -> Failing(g, "Unsupported comparison operator")

\* visit_binary_expression: a comparison, once result_reg is allocated and
\* the two labels are generated
comparison_into(g, node, left_reg, right_reg, result_reg, true_label, end_label) ==
    Then(emit_comparison_result(g, node.operator, result_reg, true_label),
         LAMBDA x :
        Returning(
            free_temporaries(
                emit_all(x, << Instruction("MVR", <<Imm(0), Reg(result_reg)>>),
                               Instruction("JMP", <<Name(end_label)>>),
                               LabelLine(true_label),
                               Instruction("MVR", <<Imm(1), Reg(result_reg)>>),
                               LabelLine(end_label) >>),
                <<left_reg, right_reg>>),
            result_reg))

\* visit_binary_expression: && and ||, once result_reg is allocated
logical_into(g, jump, first, second, left_reg, right_reg, result_reg, label, end_label) ==
    Returning(
        free_temporaries(
            emit_all(g, << Instruction(jump, <<Name(label), Reg(left_reg)>>),
                           Instruction(jump, <<Name(label), Reg(right_reg)>>),
                           Instruction("MVR", <<Imm(first), Reg(result_reg)>>),
                           Instruction("JMP", <<Name(end_label)>>),
                           LabelLine(label),
                           Instruction("MVR", <<Imm(second), Reg(result_reg)>>),
                           LabelLine(end_label) >>),
            <<left_reg, right_reg>>),
        result_reg)

\* visit_binary_expression: a % b = a - (a / b) * b
modulo_into(g, left_reg, right_reg) ==
    Then(allocate_protected(g, <<left_reg, right_reg>>), LAMBDA x :
    Then(allocate_protected(
            emit_all(x, << Instruction("DIV", <<Reg(left_reg), Reg(right_reg)>>),
                           Instruction("MVR", <<Reg(0), Reg(x.ret)>>),
                           Instruction("MULT", <<Reg(x.ret), Reg(right_reg)>>) >>),
            <<left_reg, right_reg>>), LAMBDA y :
        Returning(
            free_temporaries(
                emit_all(y, << Instruction("MVR", <<Reg(0), Reg(y.ret)>>),
                               Instruction("SUB", <<Reg(left_reg), Reg(y.ret)>>) >>),
                <<x.ret, y.ret, right_reg>>),
            0)))

\* visit_binary_expression, once both operands are in registers
binary_operation(g, node, left_reg, right_reg) ==
    IF node.operator = "%" THEN modulo_into(g, left_reg, right_reg)
    ELSE IF node.operator = "&&"
    THEN Then(allocate_protected(g, <<left_reg, right_reg>>), LAMBDA x :
            logical_into(generate_label(generate_label(x)), "JZ", 1, 0,
                         left_reg, right_reg, x.ret,
                         label_name(x, "lgc_nd_fls", 0),
                         label_name(x, "lgc_nd_nd", 1)))
    ELSE IF node.operator = "||"
    THEN Then(allocate_protected(g, <<left_reg, right_reg>>), LAMBDA x :
            logical_into(generate_label(generate_label(x)), "JNZ", 0, 1,
                         left_reg, right_reg, x.ret,
                         label_name(x, "lgc_or_tru", 0),
                         label_name(x, "lgc_or_nd", 1)))
    ELSE IF node.operator \in ComparisonOperators
    THEN Then(allocate_protected(g, <<left_reg, right_reg>>), LAMBDA x :
            comparison_into(
                generate_label(generate_label(
                    emit(x, "SUB", <<Reg(left_reg), Reg(right_reg)>>))),
                node, left_reg, right_reg, x.ret,
                label_name(x, "tru", 0), label_name(x, "cmp_nd", 1)))
    ELSE IF node.operator \in DOMAIN BINARY_OP_MAP
    THEN Returning(
            free_temporaries(
                emit(g, BINARY_OP_MAP[node.operator],
                     <<Reg(left_reg), Reg(right_reg)>>),
                <<left_reg, right_reg>>),
            0)
    ELSE Failing(g, "Unsupported binary operator: " \o node.operator)

\* visit_binary_expression: right_reg is kept across the pop of the left operand
pin_right(g, right_reg) ==
    IF right_reg = 0 THEN save_alu_result(g, TRUE)
    ELSE Returning(mark_register_live(g, right_reg, ""), right_reg)

\* visit_binary_expression: the left operand comes back from the stack
restore_left(g, node, right_reg) ==
    Then(allocate_temporary(g), LAMBDA x :
        binary_operation(
            mark_register_consumed(emit_pop(x, x.ret), right_reg, ""),
            node, x.ret, right_reg))

\* visit_binary_expression, inside its expression scope
binary_operands(g, node) ==
    Then(visit(g, node.left), LAMBDA l :
        IF l.ret = 0 \/ l.ret >= 4
        THEN Then(visit(safe_free(emit_push(l, l.ret), l.ret), node.right),
                  LAMBDA r :
             Then(pin_right(r, r.ret), LAMBDA p : restore_left(p, node, p.ret)))
        ELSE Then(visit(l, node.right), LAMBDA r :
                binary_operation(r, node, l.ret, r.ret)))

\* AssemblyGenerator.visit_binary_expression
visit_binary_expression(g, node) ==
    Finally(binary_operands(enter_expression_scope(g), node), LAMBDA x :
        Returning(exit_expression_scope(x), x.ret))

\* visit_unary_expression, once the operand is in a register.  The branch
\* for ADDRESS_OF is left out: no program here takes an address.
unary_operation(g, node, operand_reg) ==
    CASE node.operator = "-" ->
            Then(allocate_temporary(g), LAMBDA x :
                Returning(
                    emit(emit_immediate(x, "MVR", 0, x.ret), "SUB",
                         <<Reg(x.ret), Reg(operand_reg)>>),
                    0))
      [] node.operator = "not" ->
            Returning(emit(g, "NOT", <<Reg(operand_reg)>>), 0)
      [] node.operator = "!" ->
            Then(allocate_temporary(g), LAMBDA x :
                Returning(
                    emit_all(generate_label(generate_label(x)),
                        << Instruction("JZ", <<Name(label_name(x, "lgc_nt_tru", 0)),
                                               Reg(operand_reg)>>),
                           Instruction("MVR", <<Imm(0), Reg(x.ret)>>),
                           Instruction("JMP", <<Name(label_name(x, "lgc_nt_nd", 1))>>),
                           LabelLine(label_name(x, "lgc_nt_tru", 0)),
                           Instruction("MVR", <<Imm(1), Reg(x.ret)>>),
                           LabelLine(label_name(x, "lgc_nt_nd", 1)) >>),
                    x.ret))
      [] node.operator = "*" ->
            Then(allocate_temporary(g), LAMBDA x :
                Returning(emit(x, "READ", <<Reg(operand_reg), Reg(x.ret)>>),
                          x.ret))
      [] OTHER -> Failing(g, "Unsupported unary operator: " \o node.operator)

\* AssemblyGenerator.visit_unary_expression
visit_unary_expression(g, node) ==
    Finally(Then(visit(enter_expression_scope(g), node.operand), LAMBDA o :
                unary_operation(o, node, o.ret)), LAMBDA x :
        Returning(exit_expression_scope(x), x.ret))

\* visit_function_call: one argument into a register that is not R0;
\* an array decays to its address
visit_argument(g, arg) ==
    IF arg.type = "Identifier" /\ resolve(g, arg.name).kind = ARRAY_KIND
    THEN Then(allocate_temporary(g), LAMBDA x :
            emit_immediate(x, "MVR", resolve(g, arg.name).address, x.ret))
    ELSE Then(visit(g, arg), LAMBDA x : rescue_r0(x, x.ret))

RECURSIVE emit_pushes(_, _)
emit_pushes(g, regs) ==
    IF regs = <<>> THEN g
    ELSE emit_pushes(emit_push(g, Head(regs)), Tail(regs))

\* reversed(args_regs)
Reversed(s) == [i \in 1 .. Len(s) |-> s[Len(s) + 1 - i]]

\* visit_function_call: step 3, the JAL
emit_call(g, node) ==
    IF node.function.type = "Identifier"
    THEN emit(g, "JAL", <<Name("func_" \o node.function.name)>>)
    ELSE Then(visit(g, node.function), LAMBDA x :
            emit(x, "JAL", <<Reg(x.ret)>>))

\* visit_function_call: steps 2 to 5, once the arguments are in args_regs
call_with_arguments(g, node, args_regs) ==
    Then(emit_call(
            free_temporaries(emit_pushes(g, Reversed(args_regs)), args_regs),
            node), LAMBDA x :
    Then(allocate_temporary(x), LAMBDA y :
        IF Len(node.arguments) > 0
        THEN Returning(
                emit_sp_increment(emit(y, "MVR", <<Reg(0), Reg(y.ret)>>),
                                  Len(node.arguments)),
                y.ret)
        ELSE emit(y, "MVR", <<Reg(0), Reg(y.ret)>>)))

\* visit_function_call: step 1, from argument i on
RECURSIVE visit_arguments(_, _, _, _)
visit_arguments(g, node, i, args_regs) ==
    IF i > Len(node.arguments) THEN call_with_arguments(g, node, args_regs)
    ELSE Then(visit_argument(g, node.arguments[i]), LAMBDA x :
            visit_arguments(x, node, i + 1, Append(args_regs, x.ret)))

\* AssemblyGenerator.visit_function_call
visit_function_call(g, node) == visit_arguments(g, node, 1, <<>>)

\* AssemblyGenerator._GPU_FUNC_MAP
GPU_FUNC_MAP ==
    [f \in {"drawLine", "fillGrid", "clearGrid", "loadSprite", "drawSprite",
            "loadText", "drawText", "scrollBuffer"} |->
        CASE f = "drawLine" -> "DRLINE"
          [] f = "fillGrid" -> "DRGRD"
          [] f = "clearGrid" -> "CLRGRID"
          [] f = "loadSprite" -> "LDSPR"
          [] f = "drawSprite" -> "DRSPR"
          [] f = "loadText" -> "LDTXT"
          [] f = "drawText" -> "DRTXT"
          [] f = "scrollBuffer" -> "SCRLBFR"]

\* visit_gpu_function_call: _cleanup()
gpu_cleanup(g, arg_regs) ==
    free_temporaries(mark_registers_consumed(g, arg_regs), arg_regs)

\* setGPUBuffer with the literal buffer id 0: clear bit 1, OR with value << 1
set_edit_buffer_bit(g, arg_regs) ==
    Then(allocate_protected(g, arg_regs), LAMBDA x :
        free_temporaries(
            emit_all(x, << Instruction("AND", <<Reg(0), ImmHighOnes(65533)>>),
                           Instruction("MVR", <<Reg(0), Reg(x.ret)>>),
                           Instruction("SHL", <<Reg(arg_regs[2]), Imm(1)>>),
                           Instruction("OR", <<Reg(0), Reg(x.ret)>>) >>),
            <<x.ret>>))

\* setGPUBuffer with the literal buffer id 1: clear bit 0, OR with value
set_display_buffer_bit(g, arg_regs) ==
    emit_all(g, << Instruction("AND", <<Reg(0), ImmHighOnes(65534)>>),
                   Instruction("OR", <<Reg(0), Reg(arg_regs[2])>>) >>)

\* setGPUBuffer with a buffer id that is not a literal
set_buffer_bit_dynamically(g, arg_regs) ==
    Then(allocate_protected(g, arg_regs), LAMBDA x :
        free_temporaries(
            emit_all(x, << Instruction("AND", <<Reg(0), ImmHighOnes(65532)>>),
                           Instruction("MVR", <<Reg(0), Reg(x.ret)>>),
                           Instruction("SHL", <<Reg(arg_regs[2]),
                                                Reg(arg_regs[1])>>),
                           Instruction("OR", <<Reg(0), Reg(x.ret)>>) >>),
            <<x.ret>>))

\* setGPUBuffer: the code between MVR GPU, 0 and MVR 0, GPU
set_buffer_bit(g, node, arg_regs) ==
    IF "value" \in DOMAIN node.arguments[1]
    THEN IF node.arguments[1].value = 0 THEN set_edit_buffer_bit(g, arg_regs)
         ELSE IF node.arguments[1].value = 1
         THEN set_display_buffer_bit(g, arg_regs)
         ELSE Failing(gpu_cleanup(g, arg_regs),
                "Invalid buffer_id for setGPUBuffer (must be 0 or 1)")
    ELSE set_buffer_bit_dynamically(g, arg_regs)

\* visit_gpu_function_call: setGPUBuffer(buffer_id, value)
set_gpu_buffer(g, node, arg_regs) ==
    IF Len(arg_regs) # 2 THEN Failing(g, "setGPUBuffer requires 2 arguments")
    ELSE Then(set_buffer_bit(emit(g, "MVR", <<Name("GPU"), Reg(0)>>),
                             node, arg_regs), LAMBDA x :
            Returning(gpu_cleanup(emit(x, "MVR", <<Reg(0), Name("GPU")>>),
                                  arg_regs), 0))

\* visit_gpu_function_call: the operand list of the other built-ins, a bare
\* literal in its immediate form
immediate_args(node, arg_regs, saved_temps) ==
    [i \in 1 .. Len(arg_regs) |->
        IF arg_regs[i] \notin saved_temps /\ "value" \in DOMAIN node.arguments[i]
        THEN Imm(node.arguments[i].value) ELSE Reg(arg_regs[i])]

\* visit_gpu_function_call: step 3, with every argument register live
gpu_codegen(g, node, arg_regs, saved_temps) ==
    IF node.function_name = "setGPUBuffer"
    THEN set_gpu_buffer(g, node, arg_regs)
    ELSE IF node.function_name \notin DOMAIN GPU_FUNC_MAP
    THEN Failing(gpu_cleanup(g, arg_regs),
                 "Unknown GPU function: " \o node.function_name)
    ELSE Returning(
            gpu_cleanup(emit(g, GPU_FUNC_MAP[node.function_name],
                             immediate_args(node, arg_regs, saved_temps)),
                        arg_regs), 0)

\* visit_gpu_function_call: steps 1 and 2, from argument i on; a result in
\* R0 is saved to a temporary that is pinned live
RECURSIVE visit_gpu_arguments(_, _, _, _, _)
visit_gpu_arguments(g, node, i, arg_regs, saved_temps) ==
    IF i > Len(node.arguments)
    THEN gpu_codegen(mark_registers_live(g, arg_regs), node, arg_regs,
                     saved_temps)
    ELSE Then(visit(g, node.arguments[i]), LAMBDA x :
            IF x.ret = 0
            THEN Then(save_alu_result(x, TRUE), LAMBDA y :
                    visit_gpu_arguments(y, node, i + 1,
                        Append(arg_regs, y.ret), saved_temps \cup {y.ret}))
            ELSE visit_gpu_arguments(x, node, i + 1, Append(arg_regs, x.ret),
                                     saved_temps))

\* AssemblyGenerator.visit_gpu_function_call (setGPUBuffer and the built-ins
\* of _GPU_FUNC_MAP)
visit_gpu_function_call(g, node) == visit_gpu_arguments(g, node, 1, <<>>, {})

\* malloc, after allocate_memory: the address goes into a temporary
\* register as an immediate
malloc_pointer(g, ram_addr) ==
    IF ram_addr = NoValue THEN Failing(g, "Failed to allocate memory")
    ELSE Then(allocate_temporary(g), LAMBDA x :
            emit(x, "MVR", <<Imm(ram_addr), Reg(x.ret)>>))

\* visit_memory_function_call: malloc(size)
malloc_call(g, node) ==
    IF Len(node.arguments) # 1
    THEN Failing(g, "malloc requires exactly 1 argument (size)")
    ELSE IF node.arguments[1].type # "IntegerLiteral"
    THEN Failing(g, "malloc with runtime size not supported")
    ELSE Then(allocate_memory(generate_label(g),
                              label_name(g, "malloc_temp_", 0),
                              node.arguments[1].value),
              LAMBDA x : malloc_pointer(x, x.ret))

\* visit_memory_function_call: free(ptr)
free_call(g, node) ==
    IF Len(node.arguments) # 1
    THEN Failing(g, "free requires exactly 1 argument (pointer)")
    ELSE Then(visit(g, node.arguments[1]), LAMBDA x :
            Returning(emit(x, "MVR", <<Reg(0), Reg(0)>>), 0))

\* readChar, after allocate_memory: KEYIN into the cell, then READ it
read_char_from(g, ram_addr) ==
    IF ram_addr = NoValue
    THEN Failing(g, "Failed to allocate memory for readChar buffer")
    ELSE Then(allocate_temporary(emit(g, "KEYIN", <<Imm(ram_addr)>>)),
              LAMBDA x : emit(x, "READ", <<Imm(ram_addr), Reg(x.ret)>>))

\* visit_memory_function_call: readChar()
read_char_call(g, node) ==
    IF Len(node.arguments) # 0 THEN Failing(g, "readChar takes no arguments")
    ELSE Then(allocate_memory(generate_label(g),
                              label_name(g, "readchar_temp_", 0), 1),
              LAMBDA x : read_char_from(x, x.ret))

\* AssemblyGenerator.visit_memory_function_call
visit_memory_function_call(g, node) ==
    CASE node.function_name = "malloc" -> malloc_call(g, node)
      [] node.function_name = "free" -> free_call(g, node)
      [] node.function_name = "readChar" -> read_char_call(g, node)
      [] OTHER -> Failing(g, "Unknown memory function")

\* AssemblyGenerator.visit_expression_statement
visit_expression_statement(g, node) ==
    Then(visit(g, node.expression), LAMBDA x : safe_free(x, x.ret))

\* visit_return_statement: leave the function
emit_return(g) ==
    IF g.current_function = "main" THEN emit(g, "HALT", <<>>)
    ELSE emit_function_epilogue(g)

\* AssemblyGenerator.visit_return_statement
visit_return_statement(g, node) ==
    IF "value" \in DOMAIN node
    THEN Then(visit(g, node.value), LAMBDA x :
            emit_return(emit(x, "MVR", <<Reg(x.ret), Reg(0)>>)))
    ELSE emit_return(emit_immediate(g, "MVR", 0, 0))

RECURSIVE visit_statements(_, _, _)
visit_statements(g, statements, i) ==
    IF i > Len(statements) THEN g
    ELSE Then(visit(g, statements[i]), LAMBDA x :
            visit_statements(x, statements, i + 1))

\* visit_block, after its statements
block_exit(g, depth_at_entry) ==
    exit_scope(
        [(IF g.current_local_frame_depth - depth_at_entry > 0
          THEN emit_sp_increment(g, g.current_local_frame_depth - depth_at_entry)
          ELSE g)
         EXCEPT !.current_local_frame_depth = depth_at_entry])

\* AssemblyGenerator.visit_block
visit_block(g, node) ==
    Then(visit_statements(enter_scope(g), node.statements, 1), LAMBDA x :
        block_exit(x, g.current_local_frame_depth))

\* visit_variable_declaration: the initializer, if there is one
declaration_value(g, node) ==
    IF "initializer" \in DOMAIN node THEN visit(g, node.initializer)
    ELSE Returning(g, NoValue)

\* visit_variable_declaration: the value goes to the symbol's RAM address
\* (g.ret, left by allocate_memory)
initialize_in_ram(g, value_reg) ==
    IF value_reg = NoValue THEN g
    ELSE emit(g, "LOAD", <<Reg(value_reg), Imm(g.ret)>>)

\* visit_variable_declaration: an array, always in RAM
declare_array(g, node, value_reg) ==
    Then(IF Len(g.scopes) = 1
         THEN check_static_bounds(g, node.array_size, node.name)
         ELSE g, LAMBDA c :
    Then(define_variable(c, node.name, node.array_size), LAMBDA x :
        initialize_in_ram(x, value_reg)))

\* visit_variable_declaration: a global scalar, in RAM
declare_global(g, node, value_reg) ==
    Then(check_static_bounds(g, 2, node.name), LAMBDA c :
    Then(define_variable(c, node.name, 0), LAMBDA x :
        safe_free(initialize_in_ram(x, value_reg), value_reg)))

\* self._safe_free(reg) if reg != other
safe_free_unless(g, reg, other) == IF reg # other THEN safe_free(g, reg) ELSE g

\* visit_variable_declaration: the initializer's value into the stack slot
store_local(g, actual_value_reg, value_reg, frame_offset) ==
    IF actual_value_reg = NoValue THEN g
    ELSE Then(emit_fp_store(g, actual_value_reg, frame_offset), LAMBDA s :
            safe_free_unless(
                safe_free_unless(safe_free(s, s.ret), actual_value_reg, s.ret),
                value_reg, actual_value_reg))

\* visit_variable_declaration: an initializer left in R0 is moved to a
\* temporary before the stack slot is allocated
preserve_value(g, value_reg) ==
    IF value_reg = 0
    THEN Then(allocate_temporary(g), LAMBDA x :
            Returning(emit(x, "MVR", <<Reg(0), Reg(x.ret)>>), x.ret))
    ELSE Returning(g, value_reg)

\* visit_variable_declaration: a local scalar, in the current stack frame
declare_local(g, node, value_reg) ==
    Then(define_variable_on_stack(
            [g EXCEPT !.current_local_frame_depth = @ + 1],
            node.name, -(g.current_local_frame_depth + 1)), LAMBDA d :
    Then(preserve_value(d, value_reg), LAMBDA a :
        store_local(emit_sp_decrement(a, 1), a.ret, value_reg,
                    -(g.current_local_frame_depth + 1))))

\* AssemblyGenerator.visit_variable_declaration
visit_variable_declaration(g, node) ==
    Then(declaration_value(g, node), LAMBDA v :
        IF node.array_size > 0 THEN declare_array(v, node, v.ret)
        ELSE IF Len(v.scopes) = 1 THEN declare_global(v, node, v.ret)
        ELSE declare_local(v, node, v.ret))

\* an optional part of a statement, visited if it is there
visit_optional(g, node, field) ==
    IF field \in DOMAIN node THEN visit(g, node[field]) ELSE g

\* an optional expression of a for statement; its register is discarded
visit_discarded(g, node, field) ==
    IF field \in DOMAIN node
    THEN Then(visit(g, node[field]), LAMBDA x : safe_free(x, x.ret))
    ELSE g

\* the condition of a statement: a jump to label if it is zero
visit_condition(g, condition, label) ==
    Then(visit(g, condition), LAMBDA c :
        free_temporary_register(
            emit(c, "JZ", <<Name(label), Reg(c.ret)>>), c.ret))

\* AssemblyGenerator.visit_if_statement
visit_if_statement(g, node) ==
    Then(visit(g, node.condition), LAMBDA c :
    Then(visit(free_temporary_register(
                  emit(generate_label(generate_label(c)), "JZ",
                       <<Name(label_name(c, "els", 0)), Reg(c.ret)>>),
                  c.ret),
               node.then_branch), LAMBDA t :
    Then(visit_optional(
            emit_label(emit(t, "JMP", <<Name(label_name(c, "endf", 1))>>),
                       label_name(c, "els", 0)),
            node, "else_branch"), LAMBDA e :
        emit_label(e, label_name(c, "endf", 1)))))

\* continue_labels.append, break_labels.append
push_loop_labels(g, continue_label, break_label) ==
    [g EXCEPT !.continue_labels = Append(@, continue_label),
              !.break_labels = Append(@, break_label)]

\* continue_labels.pop, break_labels.pop
pop_loop_labels(g) ==
    [g EXCEPT !.continue_labels = SubSeq(@, 1, Len(@) - 1),
              !.break_labels = SubSeq(@, 1, Len(@) - 1)]

\* AssemblyGenerator.visit_while_statement
visit_while_statement(g, node) ==
    Then(visit_condition(
            emit_label(
                push_loop_labels(generate_label(generate_label(g)),
                                 label_name(g, "wh_lp", 0),
                                 label_name(g, "wh_lp_nd", 1)),
                label_name(g, "wh_lp", 0)),
            node.condition, label_name(g, "wh_lp_nd", 1)), LAMBDA c :
    Then(visit(c, node.body), LAMBDA b :
        pop_loop_labels(
            emit_label(emit(b, "JMP", <<Name(label_name(g, "wh_lp", 0))>>),
                       label_name(g, "wh_lp_nd", 1)))))

\* visit_for_statement: the condition, if there is one
for_condition(g, node, end_label) ==
    IF "condition" \in DOMAIN node
    THEN visit_condition(g, node.condition, end_label)
    ELSE g

\* AssemblyGenerator.visit_for_statement
visit_for_statement(g, node) ==
    Then(visit_discarded(
            push_loop_labels(generate_label(generate_label(generate_label(g))),
                             label_name(g, "fr_cntnu", 1),
                             label_name(g, "fr_lp_nd", 2)),
            node, "initializer"), LAMBDA i :
    Then(for_condition(emit_label(i, label_name(g, "fr_lp", 0)), node,
                       label_name(g, "fr_lp_nd", 2)), LAMBDA c :
    Then(visit(c, node.body), LAMBDA b :
    Then(visit_discarded(emit_label(b, label_name(g, "fr_cntnu", 1)),
                         node, "increment"), LAMBDA n :
        pop_loop_labels(
            emit_label(emit(n, "JMP", <<Name(label_name(g, "fr_lp", 0))>>),
                       label_name(g, "fr_lp_nd", 2)))))))

\* AssemblyGenerator.visit_break_statement
visit_break_statement(g, node) ==
    IF g.break_labels = <<>>
    THEN Failing(g, "Break statement outside loop or switch")
    ELSE emit(g, "JMP", <<Name(g.break_labels[Len(g.break_labels)])>>)

\* AssemblyGenerator.visit_continue_statement
visit_continue_statement(g, node) ==
    IF g.continue_labels = <<>>
    THEN Failing(g, "Continue statement outside loop")
    ELSE emit(g, "JMP", <<Name(g.continue_labels[Len(g.continue_labels)])>>)

\* AssemblyGenerator._ends_with_return
ends_with_return(block) ==
    /\ block.statements # <<>>
    /\ block.statements[Len(block.statements)].type = "ReturnStatement"

\* visit_function_declaration: the prologue
emit_function_prologue(g) ==
    emit(emit_push(emit_push(g, 2), FRAME_POINTER_REG), "MVR",
         <<Reg(STACK_POINTER_REG), Reg(FRAME_POINTER_REG)>>)

\* visit_function_declaration: parameter i (counted from 1) is at FP+2+(i-1)
RECURSIVE define_parameters(_, _, _)
define_parameters(g, parameters, i) ==
    IF i > Len(parameters) THEN g
    ELSE Then(define_parameter_on_stack(g, parameters[i], 2 + (i - 1)),
              LAMBDA x : define_parameters(x, parameters, i + 1))

\* visit_function_declaration, after the body
function_exit(g, node) ==
    [(IF ends_with_return(node.body) THEN g
      ELSE IF node.name = "main"
      THEN emit(emit_immediate(g, "MVR", 0, 0), "HALT", <<>>)
      ELSE emit_function_epilogue(emit_immediate(g, "MVR", 0, 0)))
     EXCEPT !.current_function = None]

\* AssemblyGenerator.visit_function_declaration
visit_function_declaration(g, node) ==
    Then(define_parameters(
            IF node.name # "main"
            THEN emit_function_prologue(
                    enter_scope(emit_label(
                        [g EXCEPT !.current_function = node.name,
                                  !.current_local_frame_depth = 0],
                        "func_" \o node.name)))
            ELSE enter_scope(emit_label(
                    [g EXCEPT !.current_function = node.name,
                              !.current_local_frame_depth = 0],
                    "func_" \o node.name)),
            node.parameters, 1), LAMBDA x :
    Then(visit(x, node.body), LAMBDA y :
    Then(exit_scope(y), LAMBDA z : function_exit(z, node))))

visit(g, node) ==
    CASE node.type = "IntegerLiteral" -> visit_integer_literal(g, node)
      [] node.type = "Identifier" -> visit_identifier(g, node)
      [] node.type = "BinaryExpression" -> visit_binary_expression(g, node)
      [] node.type = "UnaryExpression" -> visit_unary_expression(g, node)
      [] node.type = "FunctionCall" -> visit_function_call(g, node)
      [] node.type = "GPUFunctionCall" -> visit_gpu_function_call(g, node)
      [] node.type = "MemoryFunctionCall" ->
            visit_memory_function_call(g, node)
      [] node.type = "ExpressionStatement" -> visit_expression_statement(g, node)
      [] node.type = "ReturnStatement" -> visit_return_statement(g, node)
      [] node.type = "Block" -> visit_block(g, node)
      [] node.type = "VariableDeclaration" ->
            visit_variable_declaration(g, node)
      [] node.type = "IfStatement" -> visit_if_statement(g, node)
      [] node.type = "WhileStatement" -> visit_while_statement(g, node)
      [] node.type = "ForStatement" -> visit_for_statement(g, node)
      [] node.type = "BreakStatement" -> visit_break_statement(g, node)
      [] node.type = "ContinueStatement" -> visit_continue_statement(g, node)
      [] node.type = "FunctionDeclaration" -> visit_function_declaration(g, node)

\* visit_program: define_function for every function declaration
RECURSIVE define_functions(_, _, _)
define_functions(g, declarations, i) ==
    IF i > Len(declarations) THEN g
    ELSE IF declarations[i].type = "FunctionDeclaration"
    THEN Then(define_function(g, declarations[i].name), LAMBDA x :
            define_functions(x, declarations, i + 1))
    ELSE define_functions(g, declarations, i + 1)

\* visit_program: the declarations that are (or are not) functions, in order
RECURSIVE visit_declarations(_, _, _, _)
visit_declarations(g, declarations, i, functions) ==
    IF i > Len(declarations) THEN g
    ELSE IF (declarations[i].type = "FunctionDeclaration") = functions
    THEN Then(visit(g, declarations[i]), LAMBDA x :
            visit_declarations(x, declarations, i + 1, functions))
    ELSE visit_declarations(g, declarations, i + 1, functions)

\* AssemblyGenerator.visit_program
visit_program(g, node) ==
    Then(define_functions(
            emit_immediate(
                emit_immediate(g, "MVR", STACK_TOP, STACK_POINTER_REG),
                "MVR", STACK_TOP, FRAME_POINTER_REG),
            node.declarations, 1), LAMBDA x :
    Then(visit_declarations(x, node.declarations, 1, FALSE), LAMBDA y :
        visit_declarations(emit(y, "JMP", <<Name("func_main")>>),
                           node.declarations, 1, TRUE)))

\* generate_assembly: the generator when visit_program returns; its
\* instructions are the lines of get_assembly_code
generate_assembly(program_ast) ==
    visit_program(AssemblyGeneratorInit(DefaultRamStart, DefaultRamSize),
                  program_ast)

(***************************************************************************)
(* The loader (src/vm/assembly_loader.py) on generated assembly: a label   *)
(* line names the address of the next instruction and is no instruction.   *)
(***************************************************************************)
IsLabelLine(line) == "label" \in DOMAIN line

\* current_address when line i is read
LineAddress(lines, i) ==
    Cardinality({j \in 1 .. i - 1 : ~IsLabelLine(lines[j])})

\* the last line that defines the label
LabelDefinition(lines, label) ==
    CHOOSE i \in 1 .. Len(lines) :
        /\ IsLabelLine(lines[i]) /\ lines[i].label = label
        /\ \A j \in i + 1 .. Len(lines) :
                ~(IsLabelLine(lines[j]) /\ lines[j].label = label)

\* AssemblyLoader.load_from_string
load_from_string(lines) ==
    [program |-> SelectSeq(lines, LAMBDA line : ~IsLabelLine(line)),
     labels |-> [label \in {lines[i].label :
                                i \in {j \in 1 .. Len(lines) : IsLabelLine(lines[j])}}
                    |-> LineAddress(lines, LabelDefinition(lines, label))]]

(***************************************************************************)
(* The symbol table as a state machine: a code generator calling the       *)
(* operations of SymbolTable and RegisterAllocator in any order.           *)
(***************************************************************************)
\* no program given to the generator yet
NoProgram == [type |-> "Program", declarations |-> <<>>]

\* the record the operators work on, before a call
Table ==
    [mm |-> memory_manager,
     ra |-> register_allocator,
     scopes |-> scopes,
     next_scope_id |-> next_scope_id,
     expression_scope_stack |-> expression_scope_stack,
     instructions |-> instructions,
     ret |-> NoValue,
     ok |-> TRUE,
     exc |-> NoExc]

InstallTable(t) ==
    /\ memory_manager' = t.mm
    /\ register_allocator' = t.ra
    /\ scopes' = t.scopes
    /\ next_scope_id' = t.next_scope_id
    /\ expression_scope_stack' = t.expression_scope_stack
    /\ instructions' = t.instructions
    /\ result' = [ret |-> t.ret, ok |-> t.ok, exc |-> t.exc]
    /\ UNCHANGED <<vmVars, ast, deviceVars>>

\* names a generator passes for variables
SymbolNames == {"a"}

\* the registers a generator frees or pins by number, having obtained them
HandledRegisters == {31}

Usage(r) == Get(register_allocator.register_usage_count, r, 0)

\* RAM is left for one more spill
SpillBudget == Cardinality(DOMAIN memory_manager.segments) <= MaxSpills

AllocateRegisterForSymbol ==
    \E name \in SymbolNames, is_parameter \in BOOLEAN :
        SpillBudget /\ InstallTable(allocate_register_for_symbol(Table, name, is_parameter))

AllocateTemporary ==
    /\ register_allocator.temp_register_counter < MaxTemps
    /\ SpillBudget
    /\ InstallTable(allocate_temporary(Table))

FreeTemporaryRegister ==
    \E r \in HandledRegisters :
        /\ r \in register_allocator.temporary_registers
        /\ InstallTable(free_temporary_register(Table, r))

FreeRegister ==
    \E r \in HandledRegisters :
        /\ r \in DOMAIN register_allocator.register_to_symbol
        /\ InstallTable(free_register(Table, r))

AccessSymbol ==
    \E name \in SymbolNames :
        /\ \A r \in DOMAIN register_allocator.register_usage_count :
                Usage(r) < MaxUsage
        /\ SpillBudget
        /\ InstallTable(access_symbol(Table, name))

SpillSymbol ==
    \E name \in SymbolNames :
        /\ SpillBudget
        /\ InstallTable(spill_symbol(Table, name))

MarkRegisterLive ==
    \E r \in HandledRegisters :
        /\ r \in DOMAIN register_allocator.register_to_symbol
        /\ InstallTable(mark_register_live(Table, r, ""))

MarkRegisterConsumed ==
    \E r \in HandledRegisters :
        /\ r \in register_allocator.live_registers
        /\ InstallTable(mark_register_consumed(Table, r, ""))

EnterExpressionScope ==
    /\ Len(expression_scope_stack) < MaxDepth
    /\ InstallTable(enter_expression_scope(Table))

ExitExpressionScope ==
    /\ expression_scope_stack # <<>>
    /\ InstallTable(exit_expression_scope(Table))

InitTable(t) ==
    /\ memory_manager = t.mm
    /\ register_allocator = t.ra
    /\ scopes = t.scopes
    /\ next_scope_id = t.next_scope_id
    /\ expression_scope_stack = t.expression_scope_stack
    /\ instructions = t.instructions
    /\ result = [ret |-> t.ret, ok |-> t.ok, exc |-> t.exc]
    /\ ast = NoProgram

\* SymbolTable.__init__
InitCompiler == InitTable(SymbolTableInit(DefaultRamStart, DefaultRamSize))

\* a generator n temporaries further into an expression
RECURSIVE Temporaries(_, _)
Temporaries(t, n) ==
    IF n = 0 THEN t ELSE Temporaries(allocate_temporary(t), n - 1)

\* the symbol table of a generator that holds HeldTemporaries temporaries,
\* reached eight allocations at a time
Held8 == Temporaries(SymbolTableInit(DefaultRamStart, DefaultRamSize), 8)
Held16 == Temporaries(Held8, 8)
HeldTable == Temporaries(Held16, HeldTemporaries - 16)

\* the same generator with every temporary it holds pinned by
\* mark_register_live
RECURSIVE Pinned(_, _)
Pinned(t, regs) ==
    IF regs = {} THEN t
    ELSE Pinned(mark_register_live(t, MaxOf(regs), ""), regs \ {MaxOf(regs)})

PinnedTable == Pinned(HeldTable, HeldTable.ra.temporary_registers)

InitRA ==
    /\ InitVM([program |-> <<>>, labels |-> NoLabels])
    /\ (InitTable(HeldTable) \/ InitTable(PinnedTable))

NextRA ==
    \/ AllocateRegisterForSymbol
    \/ AllocateTemporary
    \/ FreeTemporaryRegister
    \/ FreeRegister
    \/ AccessSymbol
    \/ SpillSymbol
    \/ MarkRegisterLive
    \/ MarkRegisterConsumed
    \/ EnterExpressionScope
    \/ ExitExpressionScope

SpecRA == InitRA /\ [][NextRA]_vars

(***************************************************************************)
(* The machine with a keyboard: a producer adds characters to the input    *)
(* buffer and takes them back while a program reads them with KEYIN        *)
(***************************************************************************)
\* one read into RAM, then HALT
ProgKeyin ==
    [program |-> << Instruction("KEYIN", <<Imm(4097)>>),
                    Instruction("HALT", <<>>) >>,
     labels |-> NoLabels]

\* the 6-bit code of the key the producer presses when the write pointer
\* is at slot n: the codes 1..42 in turn
TypedKey(n) == (n % 42) + 1

\* the keys pressed in one run: enough to go once around the buffer
MaxKeys == InputBufferSize

\* the producer: CPU.add_input_char, as called by _handle_keyboard_input
\* and by the tests that inject input
AddInputChar ==
    /\ history.added < MaxKeys
    /\ \E m \in {add_input_char(Machine, TypedKey(input_write_pos))} :
        /\ input_buffer' = m.input_buffer
        /\ input_write_pos' = m.input_write_pos
    /\ history' = [history EXCEPT !.added = @ + 1]
    /\ UNCHANGED <<program, labels, registers, pc, state, halt_reason,
                   instruction_count, cycle_count, ram, input_read_pos,
                   running, breakpoints, gpu, run_frame>>
    /\ UNCHANGED compilerVars

\* the producer: CPU.backspace_input, as called for K_BACKSPACE
BackspaceInput ==
    /\ history.removed < MaxBackspaces
    /\ input_write_pos' = backspace_input(Machine).input_write_pos
    /\ history' = [history EXCEPT
            !.removed = @ + (IF input_write_pos # input_read_pos
                             THEN 1 ELSE 0)]
    /\ UNCHANGED <<program, labels, registers, pc, state, halt_reason,
                   instruction_count, cycle_count, ram, input_buffer,
                   input_read_pos, running, breakpoints, gpu, run_frame>>
    /\ UNCHANGED compilerVars

\* the machine without a display, and the one whose display is open
InitInput ==
    /\ \/ InitMachine(ProgKeyin, NoGPU)
       \/ InitMachine(ProgKeyin, initialize_display(GPUInit))
    /\ InitCompiler

NextInput ==
    \/ AddInputChar
    \/ BackspaceInput
    \/ StartRun
    \/ CPUStep

SpecInput == InitInput /\ [][NextInput]_vars

(***************************************************************************)
(* The symbol table of a generator that enters and leaves lexical scopes   *)
(***************************************************************************)
\* names of the variables a generator defines
ScopeVariables == {"a", "b"}

\* 0 for an int, otherwise the size of an array type
ArraySizes == {0, 2}

EnterScope ==
    /\ Len(scopes) < MaxNesting
    /\ next_scope_id < MaxScopes
    /\ InstallTable(enter_scope(Table))

DefineVariable ==
    \E name \in ScopeVariables, array_size \in ArraySizes :
        /\ Cardinality(DOMAIN memory_manager.segments) <= MaxSegments
        /\ InstallTable(define_variable(Table, name, array_size))

ExitScope ==
    /\ scopes # <<>>
    /\ InstallTable(exit_scope(Table))

InitScope == InitVM([program |-> <<>>, labels |-> NoLabels]) /\ InitCompiler

NextScope ==
    \/ EnterScope
    \/ DefineVariable
    \/ ExitScope

SpecScope == InitScope /\ [][NextScope]_vars

(***************************************************************************)
(* The virtual machine running hand-written programs                       *)
(***************************************************************************)
InitCPU == (\E prog \in CPUPrograms : InitVM(prog)) /\ InitCompiler

NextCPU ==
    \/ CPUStep
    \/ VMStep
    \/ StartRun
    \/ \E a \in BreakpointAddresses : set_breakpoint(a)
    \/ \E a \in BreakpointAddresses : clear_breakpoint(a)

SpecCPU == InitCPU /\ [][NextCPU]_vars

(***************************************************************************)
(* Compiled programs run as compile_and_run_mcl runs them                  *)
(* (tests/test_mcl_comprehensive.py)                                       *)
(***************************************************************************)
\* function f(...) { return e; }
ReturningFunction(name, parameters, e) ==
    FunctionDeclaration(name, parameters, Block(<<ReturnStatement(e)>>))

\* test_function_with_parameters
ProgAdd ==
    Program(<< ReturningFunction("add", <<"a", "b">>,
                    BinaryExpression(Identifier("a"), "+", Identifier("b"))),
               ReturningFunction("main", <<>>,
                    FunctionCall(Identifier("add"),
                                 <<IntegerLiteral(10), IntegerLiteral(15)>>)) >>)

\* argument expressions: a literal, sums, comparisons
ArgumentExpressions ==
    { IntegerLiteral(5),
      BinaryExpression(IntegerLiteral(2), "+", IntegerLiteral(3)),
      BinaryExpression(IntegerLiteral(3), "<", IntegerLiteral(7)),
      BinaryExpression(IntegerLiteral(7), "<", IntegerLiteral(3)),
      BinaryExpression(IntegerLiteral(4), "==", IntegerLiteral(4)) }

\* function pick(a, b) { return a; }  function main() { return pick(e1, e2); }
ProgPick(e1, e2) ==
    Program(<< ReturningFunction("pick", <<"a", "b">>, Identifier("a")),
               ReturningFunction("main", <<>>,
                    FunctionCall(Identifier("pick"), <<e1, e2>>)) >>)

CallPrograms ==
    {ProgAdd} \cup {ProgPick(e1, e2) : e1, e2 \in ArgumentExpressions}

\* compile_and_run_mcl up to its loop: generate_assembly, vm.reset,
\* vm.load_program_string, cpu.state = RUNNING; a CodeGenerationError ends it
CompileAndLoad(program_ast) ==
    /\ ast = NoProgram
    /\ ast' = program_ast
    /\ UNCHANGED deviceVars
    /\ \E g \in {generate_assembly(program_ast)} :
        /\ memory_manager' = g.mm
        /\ register_allocator' = g.ra
        /\ scopes' = g.scopes
        /\ next_scope_id' = g.next_scope_id
        /\ expression_scope_stack' = g.expression_scope_stack
        /\ instructions' = g.instructions
        /\ result' = [ret |-> g.ret, ok |-> g.ok, exc |-> g.exc]
        /\ IF g.exc # NoExc
           THEN UNCHANGED vmVars
           ELSE /\ program' = load_from_string(g.instructions).program
                /\ labels' = load_from_string(g.instructions).labels
                /\ registers' = [r \in 0 .. NumRegisters - 1 |-> 0]
                /\ pc' = 0
                /\ state' = RUNNING
                /\ halt_reason' = None
                /\ instruction_count' = 0
                /\ cycle_count' = 0
                /\ ram' = EmptyRam
                /\ running' = FALSE
                /\ UNCHANGED <<input_buffer, input_read_pos, input_write_pos,
                               breakpoints>>

\* one iteration of the loop of compile_and_run_mcl: vm.cpu.step()
RunCycle ==
    /\ ast # NoProgram
    /\ state = RUNNING
    /\ instruction_count < max_cycles
    /\ \E ch \in Arrivals : Install(step(Machine, ch))
    /\ UNCHANGED <<program, labels, running, breakpoints, run_frame>>
    /\ UNCHANGED compilerVars

InitCall == InitVM([program |-> <<>>, labels |-> NoLabels]) /\ InitCompiler

NextCall ==
    \/ \E program_ast \in CallPrograms : CompileAndLoad(program_ast)
    \/ RunCycle

SpecCall == InitCall /\ [][NextCall]_vars

\* the loop of compile_and_run_mcl goes on while the CPU is running and
\* cycles remain
SpecCallFair == SpecCall /\ WF_vars(RunCycle)

(***************************************************************************)
(* Programs that use the GPU, compiled and run on a machine built with a   *)
(* GPU (tests/test_gpu_commands.py); between runs the host reads and       *)
(* writes the GPU through its own methods.                                 *)
(***************************************************************************)
\* 0 + n: an expression for n that is not a literal
Computed(n) == BinaryExpression(IntegerLiteral(0), "+", IntegerLiteral(n))

\* the buffer ids a program passes to setGPUBuffer, literal or computed
BufferIdExpressions ==
    {IntegerLiteral(n) : n \in {0, 1}} \cup {Computed(n) : n \in {0, 1}}

\* fillGrid(0, 0, 2, 1); clearGrid(1, 0, 1, 1); return 0;
DrawStatements ==
    << ExpressionStatement(GPUFunctionCall("fillGrid",
            <<IntegerLiteral(0), IntegerLiteral(0), IntegerLiteral(2),
              IntegerLiteral(1)>>)),
       ExpressionStatement(GPUFunctionCall("clearGrid",
            <<IntegerLiteral(1), IntegerLiteral(0), IntegerLiteral(1),
              IntegerLiteral(1)>>)),
       ReturnStatement(IntegerLiteral(0)) >>

\* function main() { fillGrid(...); clearGrid(...); return 0; }
ProgDraw == Program(<< FunctionDeclaration("main", <<>>, Block(DrawStatements)) >>)

\* function main() { setGPUBuffer(buffer_id, value); fillGrid(...); ... }
ProgSetBuffer(buffer_id, value) ==
    Program(<< FunctionDeclaration("main", <<>>,
        Block(<< ExpressionStatement(GPUFunctionCall("setGPUBuffer",
                    <<buffer_id, IntegerLiteral(value)>>)) >>
              \o DrawStatements)) >>)

GPUPrograms ==
    {ProgDraw} \cup {ProgSetBuffer(buffer_id, value) :
                        buffer_id \in BufferIdExpressions, value \in {0, 1}}

\* the values the host writes to the GPU register: every combination of the
\* two buffer bits, without and with a bit above them
GpuRegisterValues == 0 .. 7

\* the host calls gpu.set_gpu_register(value) while no program runs
SetGpuRegister(value) ==
    /\ state # RUNNING
    /\ gpu' = set_gpu_register(gpu, value)
    /\ UNCHANGED <<vmVars, compilerVars, history, run_frame>>

\* the pixel the host sets and clears
HostPixel == <<3, 3>>

\* the host calls gpu.set_pixel(x, y, value) while no program runs
SetPixel(value) ==
    /\ state # RUNNING
    /\ gpu' = set_pixel(gpu, HostPixel[1], HostPixel[2], value)
    /\ UNCHANGED <<vmVars, compilerVars, history, run_frame>>

\* VirtualMachine(enable_gpu=True)
InitGPU == InitMachine([program |-> <<>>, labels |-> NoLabels], GPUInit)
           /\ InitCompiler

NextGPU ==
    \/ \E program_ast \in GPUPrograms : CompileAndLoad(program_ast)
    \/ RunCycle
    \/ \E value \in GpuRegisterValues : SetGpuRegister(value)
    \/ \E value \in {0, 1} : SetPixel(value)

SpecGPU == InitGPU /\ [][NextGPU]_vars

(***************************************************************************)
(* GPU commands run by the CPU: a program selects the buffers with an MVR  *)
(* to GPU, issues MaxCommands GPU instructions with immediate operands and *)
(* halts.                                                                  *)
(***************************************************************************)
GpuInstruction(opcode, values) ==
    Instruction(opcode, [i \in 1 .. Len(values) |-> Imm(values[i])])

\* rectangles on the screen, over its edge, beyond it and before it
GridOperands == {<<0, 0, 2, 1>>, <<30, 31, 4, 3>>, <<40, 0, 2, 1>>, <<-1, 0, 2, 1>>}

\* a sloped line and a horizontal one given right to left
LineOperands == {<<0, 0, 3, 2>>, <<5, 1, 1, 1>>}

\* sprite 1, loaded under the ids 1 and 33, and drawn on and off the screen
SpriteLoads == {<<1, 31>>, <<33, 1057>>}
SpriteDraws == {<<1, 0, 4>>, <<33, 30, 31>>}

\* the characters A and B at the slots 0 and 5, under ids of 14 bits and more
TextLoads == {<<0, 0>>, <<16384, 1>>, <<5, 65>>}
TextDraws == {<<0, 0, 8>>, <<16384, 0, 8>>, <<5, 4, 8>>}

ScrollOperands == {<<1, 0>>, <<0, 1>>, <<-1, 0>>}

GpuInstructions ==
    {GpuInstruction("DRGRD", v) : v \in GridOperands}
    \cup {GpuInstruction("CLRGRID", v) : v \in GridOperands}
    \cup {GpuInstruction("DRLINE", v) : v \in LineOperands}
    \cup {GpuInstruction("LDSPR", v) : v \in SpriteLoads}
    \cup {GpuInstruction("DRSPR", v) : v \in SpriteDraws}
    \cup {GpuInstruction("LDTXT", v) : v \in TextLoads}
    \cup {GpuInstruction("DRTXT", v) : v \in TextDraws}
    \cup {GpuInstruction("SCRLBFR", v) : v \in ScrollOperands}

\* MVR i:value, GPU; the commands; HALT
DrawProgram(value, commands) ==
    [program |-> <<Instruction("MVR", <<Imm(value), Name("GPU")>>)>>
                 \o commands \o <<Instruction("HALT", <<>>)>>,
     labels |-> NoLabels]

DrawPrograms ==
    {DrawProgram(value, commands) :
        value \in 0 .. 3,
        commands \in [1 .. MaxCommands -> GpuInstructions]}

\* a GPU that an earlier program has left with a dot in the middle of each
\* buffer: VirtualMachine.reset and load_program_string clear neither
UsedGPU ==
    set_gpu_register(
        fill_grid(set_gpu_register(fill_grid(GPUInit, <<16, 16, 1, 1>>), 2),
                  <<17, 16, 1, 1>>), 0)

InitDraw ==
    /\ \E prog \in DrawPrograms : \E device \in {GPUInit, UsedGPU} :
            InitMachine(prog, device)
    /\ InitCompiler

NextDraw == StartRun \/ CPUStep

SpecDraw == InitDraw /\ [][NextDraw]_vars

(***************************************************************************)
(* Programs that allocate memory with malloc, compiled and run             *)
(***************************************************************************)
\* the sizes asked for: within a size bucket, at the edge of one, all of
\* the managed RAM, and more than that
MallocSizes == {1, 4, 10, 64, 4096, 4097}

\* function main() { return malloc(n); }
ProgMalloc(n) ==
    Program(<< ReturningFunction("main", <<>>,
                    MemoryFunctionCall("malloc", <<IntegerLiteral(n)>>)) >>)

\* function main() { malloc(first); return malloc(second); }
ProgMallocTwice(first, second) ==
    Program(<< FunctionDeclaration("main", <<>>,
        Block(<< ExpressionStatement(
                    MemoryFunctionCall("malloc", <<IntegerLiteral(first)>>)),
                 ReturnStatement(
                    MemoryFunctionCall("malloc", <<IntegerLiteral(second)>>))
              >>)) >>)

\* function main() { free(malloc(4)); return malloc(2); }
ProgMallocFree ==
    Program(<< FunctionDeclaration("main", <<>>,
        Block(<< ExpressionStatement(MemoryFunctionCall("free",
                    << MemoryFunctionCall("malloc", <<IntegerLiteral(4)>>) >>)),
                 ReturnStatement(
                    MemoryFunctionCall("malloc", <<IntegerLiteral(2)>>))
              >>)) >>)

MallocPrograms ==
    {ProgMalloc(n) : n \in MallocSizes}
    \cup {ProgMallocTwice(first, second) : first, second \in MallocSizes}
    \cup {ProgMallocFree}

NextMalloc ==
    \/ \E program_ast \in MallocPrograms : CompileAndLoad(program_ast)
    \/ RunCycle

SpecMalloc == InitCall /\ [][NextMalloc]_vars

(***************************************************************************)
(* Programs that return the value of one expression, compiled and run.     *)
(***************************************************************************)
\* function main() { return e; }
ProgReturn(e) == Program(<< ReturningFunction("main", <<>>, e) >>)

\* the spellings of the bitwise complement: the operator and the keyword
ComplementOperators == {"~", "not"}

\* words to complement: 0, a small one, one with the sign bit, all ones
ComplementedValues == {0, 5, 32768, 65535}

\* function main() { return ~v; }
ProgComplement(operator, v) ==
    ProgReturn(UnaryExpression(operator, IntegerLiteral(v)))

\* words to compare: 0, 1, 30000, 32767, and -32768, -30000, -1 as words
ComparedValues == {0, 1, 30000, 32767, 32768, 35536, 65535}

OrderOperators == {"<", ">", "<=", ">="}

\* function main() { return a < b; }
ProgCompare(a, operator, b) ==
    ProgReturn(BinaryExpression(IntegerLiteral(a), operator, IntegerLiteral(b)))

ExpressionPrograms ==
    {ProgComplement(operator, v) :
        operator \in ComplementOperators, v \in ComplementedValues}
    \cup {ProgCompare(a, operator, b) :
            a \in ComparedValues, operator \in OrderOperators, b \in ComparedValues}

NextExpression ==
    \/ \E program_ast \in ExpressionPrograms : CompileAndLoad(program_ast)
    \/ RunCycle

SpecExpression == InitCall /\ [][NextExpression]_vars

(***************************************************************************)
(* Programs that return  a && b  or  a || b, compiled and run.             *)
(***************************************************************************)
LogicalOperators == {"&&", "||"}

\* operand values: zero and two values that are not zero
LogicValues == {0, 1, 2}

\* function main() { return a && b; }
ProgLogical(a, operator, b) ==
    ProgReturn(BinaryExpression(IntegerLiteral(a), operator, IntegerLiteral(b)))

\* function f() { return v; }  function main() { return a && f(); }
ProgLogicalCall(a, operator, v) ==
    Program(<< ReturningFunction("f", <<>>, IntegerLiteral(v)),
               ReturningFunction("main", <<>>,
                    BinaryExpression(IntegerLiteral(a), operator,
                                     FunctionCall(Identifier("f"), <<>>))) >>)

LogicalPrograms ==
    {ProgLogical(a, operator, b) :
        a \in LogicValues, operator \in LogicalOperators, b \in LogicValues}
    \cup {ProgLogicalCall(a, operator, v) :
            a \in LogicValues, operator \in LogicalOperators, v \in LogicValues}

NextLogical ==
    \/ \E program_ast \in LogicalPrograms : CompileAndLoad(program_ast)
    \/ RunCycle

SpecLogical == InitCall /\ [][NextLogical]_vars

(***************************************************************************)
(* Programs with one loop in main, compiled and run.  The loop is the      *)
(* first statement of main, so the stack pointer at the loop entry is      *)
(* STACK_TOP, and its labels are the first the generator makes.            *)
(***************************************************************************)
\* var x: int = 5;
DeclareLocal == InitializedDeclaration("x", IntegerLiteral(5))

\* the bodies of the loops: a block that declares a local and runs to its
\* end, leaves by break or continue (directly or inside an if), and blocks
\* that jump with no local of their own on the stack
LoopBodies ==
    { Block(<<DeclareLocal>>),
      Block(<<DeclareLocal, BreakStatement>>),
      Block(<<DeclareLocal, ContinueStatement>>),
      Block(<<DeclareLocal, IfStatement(Identifier("x"), Block(<<BreakStatement>>))>>),
      Block(<<DeclareLocal, IfStatement(Identifier("x"), Block(<<ContinueStatement>>))>>),
      Block(<<BreakStatement>>),
      Block(<<Block(<<DeclareLocal>>), BreakStatement>>),
      Block(<<Block(<<DeclareLocal>>), ContinueStatement>>) }

\* function main() { while (1) body  return 0; }
ProgWhile(body) ==
    Program(<< FunctionDeclaration("main", <<>>,
        Block(<< WhileStatement(IntegerLiteral(1), body),
                 ReturnStatement(IntegerLiteral(0)) >>)) >>)

\* function main() { for (; 1; ) body  return 0; }
ProgFor(body) ==
    Program(<< FunctionDeclaration("main", <<>>,
        Block(<< ForStatement(IntegerLiteral(1), body),
                 ReturnStatement(IntegerLiteral(0)) >>)) >>)

LoopPrograms ==
    {ProgWhile(body) : body \in LoopBodies} \cup {ProgFor(body) : body \in LoopBodies}

NextLoop ==
    \/ \E program_ast \in LoopPrograms : CompileAndLoad(program_ast)
    \/ RunCycle

SpecLoop == InitCall /\ [][NextLoop]_vars

(***************************************************************************)
(* The memory manager as a state machine: callers that allocate and free   *)
(* blocks under names, in any order.                                       *)
(***************************************************************************)
\* the words a manager is built over
ManagedSize == 24

\* at most this many segments (allocated or free) before an allocation
MaxBlocks == 3

\* the names blocks are filed under, a spill slot among them
OwnerNames == {"a$scope0$level0", "b$scope0$level0", "spill_a"}

\* sizes from the first three size buckets
BlockSizes == {1, 2, 5}

AllocateMemory ==
    \E symbol_name \in OwnerNames, size \in BlockSizes :
        /\ Cardinality(DOMAIN memory_manager.segments) <= MaxBlocks
        /\ InstallTable(allocate_memory(Table, symbol_name, size))

FreeMemory ==
    \E symbol_name \in OwnerNames :
        InstallTable(free_memory(Table, symbol_name))

InitMemory ==
    /\ InitVM([program |-> <<>>, labels |-> NoLabels])
    /\ InitTable(SymbolTableInit(DefaultRamStart, ManagedSize))

NextMemory == AllocateMemory \/ FreeMemory

SpecMemory == InitMemory /\ [][NextMemory]_vars

(***************************************************************************)
(* Programs that declare global variables and arrays, compiled and run.    *)
(***************************************************************************)
\* 0 for a scalar; array sizes that fill the static region [0x1000, 0x1800)
\* to one word less than its end, to its end, and beyond it
StaticSizes == {0, 1, 2047, 2048, 2049}

\* var name: int = 7;  or  var name: int[size];
GlobalDeclaration(name, size) ==
    IF size = 0 THEN InitializedDeclaration(name, IntegerLiteral(7))
    ELSE VariableDeclaration(name, size)

\* two global declarations and  function main() { return 0; }
ProgGlobals(first, second) ==
    Program(<< GlobalDeclaration("a", first),
               GlobalDeclaration("b", second),
               ReturningFunction("main", <<>>, IntegerLiteral(0)) >>)

StaticPrograms == {ProgGlobals(first, second) : first, second \in StaticSizes}

NextStatic ==
    \/ \E program_ast \in StaticPrograms : CompileAndLoad(program_ast)
    \/ RunCycle

SpecStatic == InitCall /\ [][NextStatic]_vars

(***************************************************************************)
(* Assembly text loaded and run by a host: load_program_string, then       *)
(* CPU.run or VirtualMachine.start with an optional bound on the cycles    *)
(***************************************************************************)
\* an operand text that _parse_operand rejects, such as #5
Invalid(s) == [k |-> "invalid", n |-> 0, s |-> s]

\* _parse_instruction raises on this line: one of its operands is rejected
\* by _parse_operand.  The opcode token is upper-cased and kept as it is.
parse_instruction_fails(line) ==
    /\ ~IsLabelLine(line)
    /\ \E i \in 1 .. Len(line.operands) : line.operands[i].k = "invalid"

\* the line_num of the AssemblyLoaderError load_from_string raises, 0 when
\* every line parses
failing_line(lines) ==
    IF \E i \in 1 .. Len(lines) : parse_instruction_fails(lines[i])
    THEN CHOOSE i \in 1 .. Len(lines) :
            /\ parse_instruction_fails(lines[i])
            /\ \A j \in 1 .. i - 1 : ~parse_instruction_fails(lines[j])
    ELSE 0

\* Memory.load_program: self.labels.update(labels)
updated_labels(old, new) ==
    [l \in DOMAIN old \cup DOMAIN new |->
        IF l \in DOMAIN new THEN new[l] ELSE old[l]]

\* VirtualMachine.load_program_string: a loader or memory error is raised
\* again as a VMException and leaves the machine as it was.  The host
\* loads its texts before it runs the machine.
LoadProgramString(lines) ==
    /\ run_frame = NoRun
    /\ instruction_count = 0
    /\ IF failing_line(lines) # 0
       THEN /\ history' = [history EXCEPT !.load_error =
                    [line |-> failing_line(lines),
                     message |-> "Invalid operand"]]
            /\ UNCHANGED <<program, labels, pc>>
       ELSE IF Len(load_from_string(lines).program) > RomSize
       THEN /\ history' = [history EXCEPT !.load_error =
                    [line |-> 0, message |-> "Program too large"]]
            /\ UNCHANGED <<program, labels, pc>>
       ELSE /\ program' = load_from_string(lines).program
            /\ labels' = updated_labels(labels, load_from_string(lines).labels)
            /\ pc' = 0
            /\ history' = [history EXCEPT !.load_error = NoLoadError]
    /\ UNCHANGED <<registers, state, halt_reason, instruction_count,
                   cycle_count, ram, input_buffer, input_read_pos,
                   input_write_pos, running, breakpoints>>
    /\ UNCHANGED <<compilerVars, gpu, run_frame>>

\* the values a text puts into a register
TextValues == 0 .. 2

\* MVR i:v, 6 / HALT
TextHalt(v) ==
    << Instruction("MVR", <<Imm(v), Reg(6)>>), Instruction("HALT", <<>>) >>

\* MVR i:v, 6: the program runs past its last instruction
TextEnd(v) == << Instruction("MVR", <<Imm(v), Reg(6)>>) >>

\* tests/test_jump_instructions.py: a loop that never ends
TextLoop(v) ==
    << Instruction("MVR", <<Imm(v), Reg(6)>>),
       LabelLine("loop"),
       Instruction("ADD", <<Reg(6), Imm(1)>>),
       Instruction("JMP", <<Name("loop")>>),
       Instruction("HALT", <<>>) >>

\* FOO is no opcode of the machine: in the way of the run, and behind HALT
TextUnknown ==
    << Instruction("MVR", <<Imm(7), Reg(6)>>),
       Instruction("FOO", <<Reg(6)>>),
       Instruction("HALT", <<>>) >>

TextUnknownBehindHalt ==
    << Instruction("MVR", <<Imm(7), Reg(6)>>),
       Instruction("HALT", <<>>),
       Instruction("FOO", <<Reg(6)>>) >>

\* MVR #5, 6 on line 2
TextInvalidOperand ==
    << Instruction("MVR", <<Imm(7), Reg(6)>>),
       Instruction("MVR", <<Invalid("#5"), Reg(6)>>),
       Instruction("HALT", <<>>) >>

\* KEYIN i:4097 / HALT
TextKeyin ==
    << Instruction("KEYIN", <<Imm(4097)>>), Instruction("HALT", <<>>) >>

Texts ==
    {TextHalt(v) : v \in TextValues} \cup {TextEnd(v) : v \in TextValues}
    \cup {TextLoop(v) : v \in TextValues}
    \cup {TextUnknown, TextUnknownBehindHalt, TextInvalidOperand, TextKeyin}

\* the max_cycles arguments: None, and the numbers a host passes
CycleBounds == {NoValue} \cup 0 .. 3

\* CPU.run up to its loop
RunStart(n) ==
    /\ run_frame = NoRun
    /\ state' = RUNNING
    /\ run_frame' = [loop |-> "run", max_cycles |-> n, cycles |-> 0]
    /\ UNCHANGED <<program, labels, registers, pc, halt_reason,
                   instruction_count, cycle_count, ram, input_buffer,
                   input_read_pos, input_write_pos, running, breakpoints>>
    /\ UNCHANGED <<compilerVars, gpu, history>>

\* max_cycles and cycles >= max_cycles: None and 0 are both false
cycle_limit_reached(f) ==
    f.max_cycles # NoValue /\ f.max_cycles # 0 /\ f.cycles >= f.max_cycles

\* the loop ends when step returns False or raises
run_frame_after_step(f, m, continue) ==
    IF m.exc # NoExc \/ ~continue THEN NoRun
    ELSE [f EXCEPT !.cycles = @ + 1]

\* one test of the loop condition of CPU.run and, if it holds, one
\* iteration
RunIteration ==
    /\ run_frame.loop = "run"
    /\ IF state # RUNNING
       THEN /\ run_frame' = NoRun
            /\ UNCHANGED <<vmVars, gpu, history>>
       ELSE IF cycle_limit_reached(run_frame)
       THEN /\ state' = STOPPED
            /\ halt_reason' = "Max cycles reached"
            /\ run_frame' = NoRun
            /\ UNCHANGED <<program, labels, registers, pc,
                           instruction_count, cycle_count, ram,
                           input_buffer, input_read_pos, input_write_pos,
                           running, breakpoints, gpu, history>>
       ELSE /\ instruction_count < MaxSteps
            /\ \E ch \in Arrivals : \E m \in {step(Machine, ch)} :
                /\ Install(m)
                /\ run_frame' = run_frame_after_step(run_frame, m,
                                                     InProgram(pc))
            /\ UNCHANGED <<program, labels, running, breakpoints>>
    /\ UNCHANGED compilerVars

\* VirtualMachine.start up to the loop of _execution_loop: the display of
\* a machine with a GPU is opened first, and start returns if that fails
Start(n) ==
    /\ run_frame = NoRun
    /\ ~running
    /\ running' = TRUE
    /\ \E opened \in BOOLEAN :
        IF gpu.attached /\ ~gpu.pygame_initialized /\ ~opened
        THEN UNCHANGED <<state, gpu, run_frame>>
        ELSE /\ gpu' = IF gpu.attached THEN initialize_display(gpu) ELSE gpu
             /\ state' = RUNNING
             /\ run_frame' = [loop |-> "start", max_cycles |-> n,
                              cycles |-> 0]
    /\ UNCHANGED <<program, labels, registers, pc, halt_reason,
                   instruction_count, cycle_count, ram, input_buffer,
                   input_read_pos, input_write_pos, breakpoints>>
    /\ UNCHANGED <<compilerVars, history>>

\* _execution_loop: an exception of the step is caught and recorded
execution_error(m) ==
    IF m.exc # NoExc
    THEN [m EXCEPT !.state = ERROR,
                   !.halt_reason = "Execution error: " \o m.exc]
    ELSE m

\* one test of the loop condition of _execution_loop and, if it holds, one
\* iteration of a machine that is not paused (an iteration of a paused
\* machine changes nothing); every way out of the loop passes through
\* finally: self.running = False.  closed: update_display finds the window
\* closed.
ExecutionLoopIteration ==
    /\ run_frame.loop = "start"
    /\ \E closed \in {FALSE, gpu.pygame_initialized} :
       IF ~running \/ state # RUNNING \/ closed
       THEN /\ running' = FALSE
            /\ run_frame' = NoRun
            /\ UNCHANGED <<program, labels, registers, pc, state,
                           halt_reason, instruction_count, cycle_count,
                           ram, input_buffer, input_read_pos,
                           input_write_pos, breakpoints, gpu, history>>
       ELSE IF cycle_limit_reached(run_frame)
       THEN /\ state' = STOPPED
            /\ halt_reason' = "Max cycles reached"
            /\ running' = FALSE
            /\ run_frame' = NoRun
            /\ UNCHANGED <<program, labels, registers, pc,
                           instruction_count, cycle_count, ram,
                           input_buffer, input_read_pos, input_write_pos,
                           breakpoints, gpu, history>>
       ELSE IF pc \in breakpoints
       THEN /\ state' = BREAKPOINT
            /\ running' = FALSE
            /\ run_frame' = NoRun
            /\ UNCHANGED <<program, labels, registers, pc, halt_reason,
                           instruction_count, cycle_count, ram,
                           input_buffer, input_read_pos, input_write_pos,
                           breakpoints, gpu, history>>
       ELSE /\ instruction_count < MaxSteps
            /\ \E ch \in Arrivals : \E m \in {step(Machine, ch)} :
                /\ Install(execution_error(m))
                /\ run_frame' = run_frame_after_step(run_frame, m,
                                                     InProgram(pc))
                /\ running' = (m.exc = NoExc /\ InProgram(pc))
            /\ UNCHANGED <<program, labels, breakpoints>>
    /\ UNCHANGED compilerVars

\* the machine as constructed: without a GPU, with one, and with one whose
\* display is open
InitRun ==
    /\ \E device \in {NoGPU, GPUInit, initialize_display(GPUInit)} :
            InitMachine([program |-> <<>>, labels |-> NoLabels], device)
    /\ InitCompiler

NextRun ==
    \/ \E lines \in Texts : LoadProgramString(lines)
    \/ \E n \in CycleBounds : RunStart(n)
    \/ RunIteration
    \/ \E n \in CycleBounds : Start(n)
    \/ ExecutionLoopIteration

SpecRun == InitRun /\ [][NextRun]_vars

(***************************************************************************)
(* Properties of the virtual machine                                       *)
(***************************************************************************)
\* a step() call of either interface
AnyStep == CPUStep \/ VMStep

\* the instruction the next fetch returns
Fetched == fetch_instruction(pc)

\* the step retires the instruction it fetched
Retires == instruction_count' = instruction_count + 1

\* the jump target named by the first operand of a jump instruction:
\* the value of the register for JMP through a register, else the
\* immediate or the address of the label
JumpTarget ==
    LET operand == Fetched.operands[1] IN
    IF Fetched.opcode = "JMP" /\ operand.k = "reg"
    THEN registers[operand.n]
    ELSE IF operand.k \in {"lab", "ilab"}
         THEN resolve_label(operand.s).v
         ELSE operand.n

\* C1: executing JAL target at address p writes p+1 into R2 and sets PC
\* to the resolved target address.
C1_JalWritesR2 ==
    [][(AnyStep /\ InProgram(pc) /\ Fetched.opcode = "JAL" /\ Retires)
        => (registers'[2] = pc + 1 /\ pc' = JumpTarget)]_vars

\* C5: once the state is Stopped or Error, a further step() call of
\* CPU.step or VirtualMachine.step retires no instruction, leaves PC,
\* registers and RAM unchanged and does not return the state to Running.
C5_HaltedStepDoesNothing ==
    [][(AnyStep /\ state \in {STOPPED, ERROR})
        => (/\ instruction_count' = instruction_count
            /\ pc' = pc
            /\ registers' = registers
            /\ ram' = ram
            /\ state' # RUNNING)]_vars

\* C6: when executing an instruction hits a runtime failure the state
\* becomes Error with a non-empty halt_reason, and PC and
\* instruction_count are unchanged.
C6_FailureDoesNotRetire ==
    [][(AnyStep /\ state' = ERROR)
        => (/\ halt_reason' \notin {None, ""}
            /\ pc' = pc
            /\ instruction_count' = instruction_count)]_vars

\* a division by zero at address 1 has stopped the machine
C6_Witness ==
    /\ state = ERROR
    /\ halt_reason = "Division by zero"
    /\ pc = 1
    /\ instruction_count = 1

\* C7: every step() taken in state Running that fetches an instruction
\* and executes it without error increases instruction_count by exactly
\* 1, and the new PC is the old PC + 1 or the jump target of the
\* instruction.
C7_OneInstructionRetires ==
    [][(AnyStep /\ state = RUNNING /\ InProgram(pc)
            /\ state' \notin {ERROR, BREAKPOINT})
        => (/\ instruction_count' = instruction_count + 1
            /\ \/ pc' = pc + 1
               \/ Fetched.opcode \in JumpOpcodes /\ pc' = JumpTarget)]_vars

\* a taken conditional jump has retired: JNZ loop at address 3 went back
\* to address 1
C7_Witness ==
    /\ program = ProgBranch.program
    /\ instruction_count = 4
    /\ pc = 1
    /\ state = RUNNING

(***************************************************************************)
(* Properties of the calling convention                                    *)
(***************************************************************************)
\* a compiled program is loaded
Loaded == ast # NoProgram /\ program # <<>>

\* the call that main returns, and the function it calls
MainCall == ast.declarations[Len(ast.declarations)].body.statements[1].value

Callee ==
    CHOOSE d \in {ast.declarations[i] : i \in 1 .. Len(ast.declarations)} :
        d.name = MainCall.function.name

\* the value of an expression of the source language on 16-bit words
RECURSIVE ValueOf(_, _)
ValueOf(e, env) ==
    CASE e.type = "IntegerLiteral" -> e.value
      [] e.type = "Identifier" -> env[e.name]
      [] e.type = "BinaryExpression" /\ e.operator = "+" ->
            (ValueOf(e.left, env) + ValueOf(e.right, env)) % (WordMask + 1)
      [] e.type = "BinaryExpression" /\ e.operator = "<" ->
            IF ValueOf(e.left, env) < ValueOf(e.right, env) THEN 1 ELSE 0
      [] e.type = "BinaryExpression" /\ e.operator = "==" ->
            IF ValueOf(e.left, env) = ValueOf(e.right, env) THEN 1 ELSE 0

\* the value of the k-th argument expression of the call
ArgumentValue(k) == ValueOf(MainCall.arguments[k], EmptyDict)

\* the callee's parameters bound to the values of the arguments
Parameters ==
    [name \in {Callee.parameters[k] : k \in 1 .. Len(Callee.parameters)} |->
        ArgumentValue(CHOOSE k \in 1 .. Len(Callee.parameters) :
                            Callee.parameters[k] = name)]

\* the value of the callee's return expression
ReturnValue == ValueOf(Callee.body.statements[1].value, Parameters)

\* the address of the JAL of the call
JalAddress == (CHOOSE i \in 1 .. Len(program) : program[i].opcode = "JAL") - 1

\* the step that executes the JMP 2 ending the callee's epilogue
ReturnJump ==
    /\ RunCycle /\ Loaded /\ InProgram(pc)
    /\ Fetched = Instruction("JMP", <<Reg(2)>>)
    /\ Retires

\* C2: when a compiled non-main function returns, PC becomes the address
\* of the instruction right after the JAL that invoked it and R0 holds the
\* value of the function's return expression.
C2_ReturnsToCaller ==
    [][ReturnJump => (pc' = JalAddress + 1 /\ registers'[0] = ReturnValue)]_vars

\* instructions of the sequences the generator emits around a call
PushLength == Len(emit_push(AssemblyGeneratorInit(0, 0), PARAM_START).instructions)
CleanupLength == Len(emit_sp_increment(AssemblyGeneratorInit(0, 0), 1).instructions)
PrologueLength == Len(emit_function_prologue(AssemblyGeneratorInit(0, 0)).instructions)

\* the call sequence begins with the first push of an argument and is
\* complete after the JAL, the copy of R0 and the argument cleanup
CallBegins ==
    Loaded /\ state = RUNNING
    /\ pc = JalAddress - Len(MainCall.arguments) * PushLength

CallCompleted == Loaded /\ pc = JalAddress + 2 + CleanupLength

\* values SP takes in the programs considered
StackAddresses == STACK_TOP - 8 .. STACK_TOP

\* C3: for every call of a non-main function, SP after the call sequence
\* has completed (callee epilogue and caller's argument cleanup) equals SP
\* before the call sequence began.
C3_StackBalanced ==
    \A s \in StackAddresses :
        (CallBegins /\ registers[STACK_POINTER_REG] = s)
            ~> (CallCompleted /\ registers[STACK_POINTER_REG] = s)

\* the callee's prologue has just completed
PrologueDone ==
    Loaded /\ state = RUNNING
    /\ pc = labels["func_" \o Callee.name] + PrologueLength

\* C4: once a callee's prologue has completed, for every parameter index k
\* the word at FP+2+k holds the value of the k-th argument expression.
C4_ParametersHoldArguments ==
    PrologueDone =>
        \A k \in 1 .. Len(MainCall.arguments) :
            RamGet(ram, registers[FRAME_POINTER_REG] + 2 + (k - 1))
                = ArgumentValue(k)


(***************************************************************************)
(* Properties of the register allocator                                    *)
(***************************************************************************)
\* the name access_symbol looks a symbol up under
LookupName(name) == lookup_name_of(resolve(Table, name), name)

\* the READ instructions among those emitted by the step
EmittedReads ==
    {i \in Len(instructions) + 1 .. Len(instructions') :
        instructions'[i].opcode = "READ"}

\* C8: every access_symbol call for a symbol that is spilled and not yet
\* reloaded emits exactly one READ i:ADDR, reg, where ADDR is the address of
\* the symbol's spill LOAD and reg the register returned, and removes the
\* symbol's entry from the spill table.
C8_AccessReloadsSpilled ==
    [][\A name \in SymbolNames :
        (/\ InstallTable(access_symbol(Table, name))
         /\ LookupName(name) \in DOMAIN register_allocator.spilled_symbols)
        => (/\ Cardinality(EmittedReads) = 1
            /\ \A i \in EmittedReads :
                instructions'[i].operands =
                    <<Imm(register_allocator.spilled_symbols[LookupName(name)]),
                      Reg(result'.ret)>>
            /\ \E j \in 1 .. Len(instructions) :
                /\ instructions[j].opcode = "LOAD"
                /\ instructions[j].operands[2] =
                    Imm(register_allocator.spilled_symbols[LookupName(name)])
            /\ LookupName(name) \notin DOMAIN register_allocator'.spilled_symbols)]_vars

\* C9: in every state the allocator is left in, register_to_symbol[r] = s
\* holds if and only if symbol_to_register[s] = r holds.
C9_MapsAreInverses ==
    /\ \A r \in DOMAIN register_allocator.register_to_symbol :
        /\ register_allocator.register_to_symbol[r]
                \in DOMAIN register_allocator.symbol_to_register
        /\ register_allocator.symbol_to_register[
                register_allocator.register_to_symbol[r]] = r
    /\ \A sym \in DOMAIN register_allocator.symbol_to_register :
        /\ register_allocator.symbol_to_register[sym]
                \in DOMAIN register_allocator.register_to_symbol
        /\ register_allocator.register_to_symbol[
                register_allocator.symbol_to_register[sym]] = sym

\* C10: right after spill_symbol has spilled symbol s from register r, the
\* spill table maps s to its RAM address, neither map associates s with r
\* any more, and r is in the available set.
C10_SpillContract ==
    [][\A name \in SymbolNames :
        (/\ InstallTable(spill_symbol(Table, name))
         /\ name \in DOMAIN register_allocator.symbol_to_register
         /\ result'.ok)
        => (/\ name \in DOMAIN register_allocator'.spilled_symbols
            /\ memory_manager'.symbol_to_segment["spill_" \o name] =
                    register_allocator'.spilled_symbols[name]
            /\ ~(/\ name \in DOMAIN register_allocator'.symbol_to_register
                 /\ register_allocator'.symbol_to_register[name] =
                        register_allocator.symbol_to_register[name])
            /\ ~(/\ register_allocator.symbol_to_register[name]
                        \in DOMAIN register_allocator'.register_to_symbol
                 /\ register_allocator'.register_to_symbol[
                        register_allocator.symbol_to_register[name]] = name)
            /\ register_allocator.symbol_to_register[name]
                    \in register_allocator'.register_availability_stack[
                            Len(register_allocator'.register_availability_stack)])]_vars

\* the registers stored to RAM by the spill LOADs the step emits
SpillVictims ==
    {instructions'[i].operands[1].n :
        i \in {j \in Len(instructions) + 1 .. Len(instructions') :
                    instructions'[j].opcode = "LOAD"}}

\* C11: an allocation of a temporary register, its spill fallback included,
\* never spills a register of the live set and never returns one.
C11_TemporaryAvoidsLive ==
    [][InstallTable(allocate_temporary(Table))
        => (/\ SpillVictims \cap register_allocator.live_registers = {}
            /\ result'.ret \notin register_allocator.live_registers)]_vars

\* a temporary was obtained by spilling while other registers were live
C11_Witness ==
    /\ result.ret # NoValue
    /\ result.ret \in register_allocator.temporary_registers
    /\ register_allocator.live_registers # {}
    /\ instructions # <<>>
    /\ instructions[Len(instructions)].opcode = "LOAD"
    /\ instructions[Len(instructions)].operands[1] = Reg(result.ret)
    /\ register_allocator.register_to_symbol[result.ret] =
            "__temp_" \o ToString(register_allocator.temp_register_counter - 1)

\* the step is a call of one of the allocator's allocation entry points
AllocationStep ==
    \/ \E name \in SymbolNames, is_parameter \in BOOLEAN :
            InstallTable(allocate_register_for_symbol(Table, name, is_parameter))
    \/ InstallTable(allocate_temporary(Table))
    \/ \E name \in SymbolNames : InstallTable(access_symbol(Table, name))

\* C12: no allocation path, the allocation of a register for a named symbol
\* included, spills a register that is in the live set; when every possible
\* victim is live the allocation fails instead of evicting one.
C12_AllocationNeverSpillsLive ==
    [][AllocationStep
        => SpillVictims \cap register_allocator.live_registers = {}]_vars

\* C13: a register listed in temporary_registers is never chosen as a spill
\* victim by any allocation.
C13_TemporariesNeverSpilled ==
    [][AllocationStep
        => SpillVictims \cap register_allocator.temporary_registers = {}]_vars

\* C14: no allocation (of a temporary, for a named symbol, of a parameter, or
\* by spilling) returns a reserved register R0..R5 or assigns one to a symbol.
C14_ReservedNeverAllocated ==
    [][AllocationStep
        => (/\ result'.ret \notin RESERVED_REGISTERS
            /\ DOMAIN register_allocator'.register_to_symbol
                    \cap RESERVED_REGISTERS = {}
            /\ \A sym \in DOMAIN register_allocator'.symbol_to_register :
                    register_allocator'.symbol_to_register[sym]
                        \notin RESERVED_REGISTERS)]_vars

\* a parameter was given R6, the scan having passed over R2..R5
C14_Witness ==
    /\ result.ret = PARAM_START
    /\ PARAM_START \in DOMAIN register_allocator.register_to_symbol
    /\ register_allocator.register_to_symbol[PARAM_START] \in SymbolNames
    /\ register_allocator.next_param_register = PARAM_START + 1

\* the allocation pool R6..R31
AllocationPool == PARAM_START .. MAX_REGISTERS - 1

\* C15: an allocation of a temporary register fails only if no register of
\* the pool R6..R31 is non-live; whenever at least one register of the pool
\* is not live, the call returns a register.
C15_TemporaryFailsOnlyWhenAllLive ==
    [][(/\ InstallTable(allocate_temporary(Table))
        /\ AllocationPool \ register_allocator.live_registers # {})
        => result'.ret \in AllocationPool]_vars

(***************************************************************************)
(* Properties of lexical scopes                                            *)
(***************************************************************************)
\* the registers available after the step
AvailableAfter ==
    register_allocator'.register_availability_stack[
        Len(register_allocator'.register_availability_stack)]

\* after the step the allocator holds a register for the symbol
HeldAfter(symbol) ==
    /\ symbol.scoped_name \in DOMAIN register_allocator'.symbol_to_register
    /\ register_allocator'.symbol_to_register[symbol.scoped_name]
            \notin AvailableAfter

\* C16: after a scope is exited, the allocator holds no register for any
\* non-global symbol that was defined in the exited scope.
C16_ExitFreesScopeRegisters ==
    [][(/\ InstallTable(exit_scope(Table))
        /\ Len(scopes) > 1)
        => \A name \in DOMAIN scopes[Len(scopes)].symbols :
                ~scopes[Len(scopes)].symbols[name].is_global
                    => ~HeldAfter(scopes[Len(scopes)].symbols[name])]_vars

(***************************************************************************)
(* Properties of the input buffer                                          *)
(***************************************************************************)
\* C17: equality of the pointers means empty: whenever input_read_pos =
\* input_write_pos, the characters added are as many as those consumed by
\* KEYIN plus those removed by backspace.
C17_EqualPointersMeanEmpty ==
    input_read_pos = input_write_pos
        => history.added = history.consumed + history.removed

\* the step completes a KEYIN instruction
KeyinCompletes ==
    /\ AnyStep
    /\ state = RUNNING
    /\ InProgram(pc)
    /\ Fetched.opcode = "KEYIN"
    /\ Retires

\* C18: KEYIN addr completes only with a character of the input buffer: one
\* was queued, or arrived while the instruction waited; the character
\* written to mem[addr] is the oldest unread one, and input_read_pos
\* advances by one.
C18_KeyinWritesOldestUnread ==
    [][KeyinCompletes
        => (/\ (input_read_pos # input_write_pos
                \/ input_write_pos' # input_write_pos)
            /\ input_read_pos' = (input_read_pos + 1) % InputBufferSize
            /\ RamGet(ram', Fetched.operands[1].n)
                    = InputGet(input_buffer', input_read_pos))]_vars

(***************************************************************************)
(* Properties of the GPU register                                          *)
(***************************************************************************)
EditBit(value) == (value \div 2) % 2
DisplayBit(value) == value % 2
BufferOf(d, k) == IF k = 0 THEN d.buffer_0 ELSE d.buffer_1

\* the step completes a grid command of the program
GridCommandCompletes ==
    /\ state = RUNNING
    /\ InProgram(pc)
    /\ Fetched.opcode \in {"DRGRD", "CLRGRID"}
    /\ Retires

\* the rectangle named by the immediate operands of the fetched command
FetchedRectangle ==
    clamped_rectangle([i \in 1 .. Len(Fetched.operands) |-> Fetched.operands[i].n])

\* C19: the GPU register alone selects the buffers: whatever wrote the
\* register last (the CPU's MVR to GPU or set_gpu_register), a drawing
\* command changes only buffer (gpu_register >> 1) & 1, a grid command
\* draws its rectangle there, and get_display_buffer() is buffer
\* gpu_register & 1.
C19_RegisterSelectsBuffers ==
    [][/\ BufferOf(gpu', 1 - EditBit(gpu.gpu_register))
            = BufferOf(gpu, 1 - EditBit(gpu.gpu_register))
       /\ get_display_buffer(gpu')
            = BufferOf(gpu', DisplayBit(gpu'.gpu_register))
       /\ GridCommandCompletes =>
            BufferOf(gpu', EditBit(gpu.gpu_register))
                = IF Fetched.opcode = "DRGRD"
                  THEN BufferOf(gpu, EditBit(gpu.gpu_register))
                            \cup FetchedRectangle
                  ELSE BufferOf(gpu, EditBit(gpu.gpu_register))
                            \ FetchedRectangle]_vars

\* the host selected buffer 1 for editing and buffer 0 for display, and the
\* program's grid commands then drew into buffer 1 only
C19_Witness ==
    /\ ast = ProgDraw
    /\ gpu.gpu_register = 2
    /\ gpu.command_count = 2
    /\ gpu.buffer_1 = {<<0, 0>>}
    /\ gpu.buffer_0 = {}
    /\ get_display_buffer(gpu) = {}

\* the setGPUBuffer call that opens main, and the value of a buffer id
\* expression
SetBufferCall == ast.declarations[1].body.statements[1].expression
ConstantValue(e) ==
    IF "value" \in DOMAIN e THEN e.value ELSE e.left.value + e.right.value

\* the step completes the MVR 0, GPU that ends the code of setGPUBuffer
GpuRegisterWritten ==
    /\ state = RUNNING
    /\ InProgram(pc)
    /\ Fetched.opcode = "MVR"
    /\ Fetched.operands[2] = Name("GPU")
    /\ Retires

\* C20: the code compiled for setGPUBuffer(buf_id, val), buf_id and val in
\* {0, 1}, sets the bit of gpu_register that buf_id selects (0: the edit
\* buffer id, bit 1; 1: the display buffer id, bit 0) to val and leaves the
\* other buffer id bit as it was, whether buf_id is a literal or computed.
C20_SetGPUBufferSetsSelectedBit ==
    [][GpuRegisterWritten =>
        IF ConstantValue(SetBufferCall.arguments[1]) = 0
        THEN /\ EditBit(gpu'.gpu_register) = SetBufferCall.arguments[2].value
             /\ DisplayBit(gpu'.gpu_register) = DisplayBit(gpu.gpu_register)
        ELSE /\ DisplayBit(gpu'.gpu_register) = SetBufferCall.arguments[2].value
             /\ EditBit(gpu'.gpu_register) = EditBit(gpu.gpu_register)]_vars

(***************************************************************************)
(* Properties of the GPU commands                                          *)
(***************************************************************************)
DrawingOpcodes == {"DRLINE", "DRGRD", "CLRGRID", "DRSPR", "DRTXT", "SCRLBFR"}

\* the step completes the GPU instruction it fetched
GpuCommandCompletes(opcodes) ==
    /\ state = RUNNING
    /\ InProgram(pc)
    /\ Fetched.opcode \in opcodes
    /\ Retires

\* the values of the immediate operands of the fetched instruction
FetchedValues == [i \in 1 .. Len(Fetched.operands) |-> Fetched.operands[i].n]

OnScreenRectangle(v) ==
    {p \in (0 .. DisplaySize - 1) \X (0 .. DisplaySize - 1) :
        /\ v[1] <= p[1] /\ p[1] < v[1] + v[3]
        /\ v[2] <= p[2] /\ p[2] < v[2] + v[4]}

\* C22: DRGRD x, y, w, h sets every pixel of the screen that lies in the
\* rectangle [x, x + w) x [y, y + h) and changes no other pixel of the edit
\* buffer, also for rectangles that start or reach beyond the screen.
C22_FillGridSetsExactlyRectangle ==
    [][GpuCommandCompletes({"DRGRD"}) =>
        BufferOf(gpu', gpu.edit_buffer_id)
            = BufferOf(gpu, gpu.edit_buffer_id)
                \cup OnScreenRectangle(FetchedValues)]_vars

\* the instruction before the fetched one: the program has no jumps
Previous == program[pc]

\* the values of the immediate operands of that instruction
PreviousValues == [i \in 1 .. Len(Previous.operands) |-> Previous.operands[i].n]

\* the step completes a CLRGRID that follows a DRGRD with the same operands
ClearAfterFill ==
    /\ GpuCommandCompletes({"CLRGRID"})
    /\ Previous.opcode = "DRGRD"
    /\ PreviousValues = FetchedValues

\* C23: fillGrid(x, y, w, h) followed by clearGrid(x, y, w, h) leaves every
\* pixel of that rectangle in the edit buffer zero.
C23_ClearUndoesFill ==
    [][ClearAfterFill =>
        BufferOf(gpu', gpu.edit_buffer_id)
            \cap OnScreenRectangle(FetchedValues) = {}]_vars

\* the rectangle over the corner of the screen was filled and then cleared
\* in buffer 1, which keeps its dot
C23_Witness ==
    /\ pc = 3
    /\ program[3] = GpuInstruction("CLRGRID", <<30, 31, 4, 3>>)
    /\ program[2] = GpuInstruction("DRGRD", <<30, 31, 4, 3>>)
    /\ gpu.command_count = 2
    /\ gpu.edit_buffer_id = 1
    /\ gpu.buffer_1 = UsedGPU.buffer_1

\* the step completes a DRTXT that follows the LDTXT of the same id
DrawAfterLoad ==
    /\ GpuCommandCompletes({"DRTXT"})
    /\ Previous.opcode = "LDTXT"
    /\ PreviousValues[1] = FetchedValues[1]

\* C24: for every id, LDTXT id, data followed by DRTXT id, x, y paints the
\* glyph of the character that LDTXT stored, the low 6 bits of data.
C24_DrawTextPaintsLoadedCharacter ==
    [][DrawAfterLoad =>
        BufferOf(gpu', gpu.edit_buffer_id)
            = BufferOf(gpu, gpu.edit_buffer_id) \cup
                pattern_pixels(
                    font_data[decode_6bit_char(PreviousValues[2] % 64)], 3, 4,
                    Larger(0, Smaller(DisplaySize - 1 - 2, FetchedValues[2])),
                    Larger(0, Smaller(DisplaySize - 1 - 3, FetchedValues[3])))]_vars

(***************************************************************************)
(* Properties of loading and running assembly text                         *)
(***************************************************************************)
\* C25: a text with an instruction whose opcode token is no ISA opcode is
\* rejected when it is loaded, with an error that names its line, and no
\* program is produced from it.  The machine starts with no program, so
\* the program it holds never has an instruction with such an opcode.
C25_UnknownOpcodeRejectedAtLoad ==
    \A i \in 1 .. Len(program) : program[i].opcode \in instruction_handlers

\* the cycle bound of the loop in progress is hit at its next test
CycleBoundHit == run_frame.loop # "none" /\ cycle_limit_reached(run_frame)

\* C27: whenever the CPU state changes from Running to Stopped,
\* halt_reason is set to the cause of the stop: "Max cycles reached" when
\* the loop hits its cycle bound, "End of program" when the PC is past the
\* last instruction, and "HALT instruction executed" otherwise, the
\* instruction that stops the machine being a HALT.
C27_StopSetsHaltReason ==
    [][state = RUNNING /\ state' = STOPPED =>
        halt_reason' =
            IF CycleBoundHit THEN "Max cycles reached"
            ELSE IF ~InProgram(pc) THEN "End of program"
            ELSE "HALT instruction executed"]_vars

\* C28: in a loop that was given the cycle bound n at most n instructions
\* retire: its count of retired instructions never exceeds n (and at n the
\* loop stops the machine with "Max cycles reached", so it ends for every
\* program).
C28_CycleBoundLimitsRetired ==
    run_frame.loop # "none" /\ run_frame.max_cycles # NoValue
        => run_frame.cycles <= run_frame.max_cycles

(***************************************************************************)
(* Properties of the memory and the registers                              *)
(***************************************************************************)
\* the address operand of the LOAD or READ instruction fetched
AddressOperand ==
    IF Fetched.opcode = "LOAD" THEN Fetched.operands[2]
    ELSE Fetched.operands[1]

\* the step executes a LOAD or a READ whose address is the number written
\* in the instruction, and the number lies in neither RAM nor ROM
AccessOutsideRegions ==
    /\ CPUStep /\ state = RUNNING /\ InProgram(pc)
    /\ Fetched.opcode \in {"LOAD", "READ"}
    /\ Len(Fetched.operands) = 2
    /\ AddressOperand.k \in {"imm", "hex"}
    /\ get_region(AddressOperand.n) = "none"

\* C26: a memory read and a memory write at an address value that lies in
\* neither the RAM region nor the ROM region fail and leave memory
\* unchanged.
C26_AccessOutsideRegionsFails ==
    [][AccessOutsideRegions => state' = ERROR /\ ram' = ram]_vars

\* C29: in every reachable state each general register R0..R31 holds a
\* value in 0..65535, whatever instructions and immediate operands have
\* been executed.
C29_RegistersHold16Bits ==
    \A r \in 0 .. NumRegisters - 1 : registers[r] \in 0 .. WordMask

\* MVR i:65536, MVR i:65537 and MVR i:-1 have written R0, which holds the
\* 65535 that -1 wraps to
C29_Witness ==
    /\ program = ProgOverflow.program
    /\ pc = 3
    /\ registers[0] = WordMask

(***************************************************************************)
(* Properties of malloc                                                    *)
(***************************************************************************)
\* the names visit_memory_function_call gives the blocks of malloc
MallocNames == {"malloc_temp_" \o ToString(k) : k \in 0 .. 9}

\* the start addresses of the blocks allocated for malloc
MallocBlocks ==
    {a \in DOMAIN memory_manager.segments :
        memory_manager.segments[a].stored_symbol \in MallocNames}

\* C30: every address returned for malloc(n) with a compile-time constant n
\* lies in the heap region [0x1800, 0x7000), and so does the whole block
\* from that address on.
C30_MallocInHeap ==
    \A a \in MallocBlocks :
        /\ HEAP_START <= a
        /\ memory_manager.segments[a].end_address < STACK_BASE

(***************************************************************************)
(* Properties of the static region                                         *)
(***************************************************************************)
\* the global variables and arrays the symbol table holds
GlobalData ==
    {name \in DOMAIN scopes[1].symbols :
        scopes[1].symbols[name].kind \in {VARIABLE_KIND, ARRAY_KIND}}

\* C31: every address assigned to a global variable or array lies in the
\* static region [0x1000, 0x1800), the whole of the variable with it: a
\* declaration that does not fit there fails the compilation and gets no
\* address.
C31_GlobalsInStaticRegion ==
    \A name \in GlobalData :
        /\ STATIC_START <= scopes[1].symbols[name].address
        /\ scopes[1].symbols[name].address + scopes[1].symbols[name].size
                <= HEAP_START

(***************************************************************************)
(* Properties of the memory manager                                        *)
(***************************************************************************)
\* the segments of the chain, by start address
Segments == DOMAIN memory_manager.segments

\* the segments a name owns, reached through symbol_to_segment
OwnedSegments ==
    {memory_manager.symbol_to_segment[name] :
        name \in DOMAIN memory_manager.symbol_to_segment}

\* the free segments, reached through the size buckets
BucketSegments ==
    UNION {{memory_manager.bucket_to_segments[b][i] :
                i \in 1 .. Len(memory_manager.bucket_to_segments[b])} :
           b \in 0 .. 3}

\* C33: after every allocate or free, no segment and its next neighbour
\* are both free: adjacent free segments have been coalesced into one.
C33_AdjacentFreeCoalesced ==
    \A s \in Segments :
        memory_manager.segments[s].next_neighbor # NoValue =>
            ~(is_free(memory_manager, s)
              /\ is_free(memory_manager, memory_manager.segments[s].next_neighbor))

\* a free segment of 8 words before an allocated one: no allocation leaves
\* such a remainder, it is made of freed blocks that were merged
C33_Witness ==
    /\ Cardinality(Segments) = 3
    /\ is_free(memory_manager, DefaultRamStart)
    /\ SegmentSize(memory_manager, DefaultRamStart) = 8
    /\ ~is_free(memory_manager, DefaultRamStart + 8)
    /\ result.ok

\* the allocated segments
AllocatedSegments == {s \in Segments : ~is_free(memory_manager, s)}

\* C37: the address ranges of segments owned by distinct names are
\* pairwise disjoint, and each lies inside the managed region.
C37_OwnedRangesDisjoint ==
    /\ \A s \in AllocatedSegments :
            /\ DefaultRamStart <= s
            /\ s <= memory_manager.segments[s].end_address
            /\ memory_manager.segments[s].end_address
                    <= DefaultRamStart + ManagedSize - 1
    /\ \A s1, s2 \in AllocatedSegments :
            memory_manager.segments[s1].stored_symbol
                # memory_manager.segments[s2].stored_symbol =>
                    \/ memory_manager.segments[s1].end_address < s2
                    \/ memory_manager.segments[s2].end_address < s1

\* two names own blocks next to each other, the first one split off a
\* larger free segment
C37_Witness ==
    /\ DefaultRamStart \in AllocatedSegments
    /\ memory_manager.segments[DefaultRamStart].next_neighbor \in AllocatedSegments
    /\ memory_manager.segments[DefaultRamStart].stored_symbol
            # memory_manager.segments[
                    memory_manager.segments[DefaultRamStart].next_neighbor].stored_symbol
    /\ Cardinality(DOMAIN memory_manager.symbol_to_segment) = 2

\* the sizes of the segments in a set, added up
RECURSIVE TotalSize(_)
TotalSize(segs) ==
    IF segs = {} THEN 0
    ELSE SegmentSize(memory_manager, CHOOSE s \in segs : TRUE)
            + TotalSize(segs \ {CHOOSE s \in segs : TRUE})

\* C38: after any sequence of allocate and free calls, the sizes of the
\* segments reachable through the owner names and the sizes of the
\* segments in the free buckets add up to the size of the managed region,
\* also when a name is allocated more than once.
C38_SizesAddUpToRegion ==
    TotalSize(OwnedSegments) + TotalSize(BucketSegments) = ManagedSize

(***************************************************************************)
(* Properties of compiled expressions                                      *)
(***************************************************************************)
\* main has returned: the program has executed its HALT
MainReturned == halt_reason = "HALT instruction executed"

\* C35: the register returned for ~e holds the 16-bit bitwise complement
\* of e: the program  return ~e;  compiles and halts with that value in R0.
C35_ComplementReturned ==
    \A operator \in ComplementOperators, v \in ComplementedValues :
        ast = ProgComplement(operator, v) =>
            /\ result.exc = NoExc
            /\ MainReturned => registers[RETURN_VALUE_REG] = WordMask - v

\* the left operand alone decides  a && b  (a is 0) or  a || b  (a is not 0)
Decided(a, operator) ==
    \/ operator = "&&" /\ a = 0
    \/ operator = "||" /\ a # 0

\* the value of  a && b  or  a || b
LogicalValue(a, operator, b) ==
    IF operator = "&&"
    THEN (IF a # 0 /\ b # 0 THEN 1 ELSE 0)
    ELSE (IF a # 0 \/ b # 0 THEN 1 ELSE 0)

\* the call of f, which is the right operand, has been executed
CalleeEntered ==
    /\ "func_f" \in DOMAIN labels
    /\ state = RUNNING
    /\ pc = labels["func_f"]

\* C32: && and || short-circuit: when the left operand decides the result
\* (0 for &&, not 0 for ||) no instruction of the right operand executes,
\* and the result is 0 or 1, the logical value of the operands.
C32_ShortCircuit ==
    /\ \A a, v \in LogicValues, operator \in LogicalOperators :
            (ast = ProgLogicalCall(a, operator, v) /\ Decided(a, operator)) =>
                ~CalleeEntered
    /\ \A a, b \in LogicValues, operator \in LogicalOperators :
            (ast = ProgLogical(a, operator, b) /\ MainReturned) =>
                registers[RETURN_VALUE_REG] = LogicalValue(a, operator, b)

\* the labels at the start of an iteration and at the exit of the loop
LoopLabels == {"wh_lp0", "wh_lp_nd1", "fr_lp0", "fr_lp_nd2"}

\* the CPU is about to start an iteration of the loop, or has left the loop
AtLoopBoundary ==
    /\ state = RUNNING
    /\ \E label \in LoopLabels \cap DOMAIN labels : pc = labels[label]

\* C34: for every loop, the stack pointer at the start of each iteration
\* and at the loop exit is the stack pointer at the loop entry, also when
\* break or continue leaves a block that declared locals.
C34_LoopKeepsStackPointer ==
    (ast \in LoopPrograms /\ AtLoopBoundary) =>
        registers[STACK_POINTER_REG] = STACK_TOP

\* a word as a signed 16-bit integer
Signed16(v) == IF v >= 32768 THEN v - 65536 ELSE v

\* the relation an order operator stands for
Related(a, operator, b) ==
    CASE operator = "<" -> a < b
      [] operator = ">" -> a > b
      [] operator = "<=" -> a <= b
      [] operator = ">=" -> a >= b

\* C36: compiled  a < b  (and >, <=, >=) yields 1 exactly when the
\* relation holds for a and b taken as signed 16-bit integers, and 0
\* otherwise, also for pairs whose difference overflows 16 bits.
C36_SignedOrder ==
    \A a, b \in ComparedValues, operator \in OrderOperators :
        (ast = ProgCompare(a, operator, b) /\ MainReturned) =>
            registers[RETURN_VALUE_REG] =
                IF Related(Signed16(a), operator, Signed16(b)) THEN 1 ELSE 0

====
